----------------------------- MODULE RumDelivery -----------------------------
(***************************************************************************)
(* The browser client composed with the way of its beacons: handed to the  *)
(* browser they travel on their own, in any order, may be lost, and meet   *)
(* the limits of the POST /rum handler of the probe: its body limit, and   *)
(* the cut at MAX_EVENTS of ingest().  The client hears of nothing and     *)
(* sends nothing again.                                                    *)
(***************************************************************************)
EXTENDS RumClient, FiniteSetsExt

CONSTANTS
  ERROR_SIZE,   \* size of an error with its stack, in sizes of any other event
  MAX_BODY,     \* rumMaxBodyBytes
  MAX_EVENTS    \* 200

ASSUME SizeAssumption == {ERROR_SIZE, MAX_BODY, MAX_EVENTS} \subseteq Nat \ {0}

\* web-vitals has a handful of metrics, a page a bounded number of each.
ASSUME KeysAssumption == IsFiniteSet(Keys)

VARIABLES
  beacons,    \* history: all that were handed to the browser
  wire,       \* beacons on their way
  ingested    \* events that ingest() has read

deliveryVars == <<vars, beacons, wire, ingested>>

DeliveryInit ==
  Init /\ beacons = {} /\ wire = {} /\ ingested = {}

\* A step of the page; what it sends is one beacon.
Page ==
  /\ Next
  /\ LET beacon == sent' \ sent
     IN  IF beacon = {} THEN UNCHANGED <<beacons, wire>>
         ELSE beacons' = beacons \cup {beacon} /\ wire' = wire \cup {beacon}
  /\ UNCHANGED ingested

\* Neither sendBeacon nor the fallback to fetch gets it to the probe.
Lost(b) ==
  /\ wire' = wire \ {b}
  /\ UNCHANGED <<vars, beacons, ingested>>

Size(b) == MapThenSumSet(LAMBDA e : IF e.type = "error" THEN ERROR_SIZE ELSE 1, b)

\* The probe answers 413 and reads no event.
TooLarge(b) ==
  /\ Size(b) > MAX_BODY
  /\ wire' = wire \ {b}
  /\ UNCHANGED <<vars, beacons, ingested>>

\* ingest() reads the first MAX_EVENTS; the vitals of the flush come last.
Ingested(b) ==
  /\ Size(b) <= MAX_BODY
  /\ \E read \in SUBSET b :
       /\ Cardinality(read) = Min({MAX_EVENTS, Cardinality(b)})
       /\ \A e \in read, f \in b \ read : e.n <= f.n
       /\ ingested' = ingested \cup read
  /\ wire' = wire \ {b}
  /\ UNCHANGED <<vars, beacons>>

DeliveryNext == Page \/ \E b \in wire : Lost(b) \/ TooLarge(b) \/ Ingested(b)

DeliverySpec == DeliveryInit /\ [][DeliveryNext]_deliveryVars

-----------------------------------------------------------------------------
\* A full batch and the vitals of a page fit into what ingest() reads.
Roomy == BATCH_SIZE > 0 /\ BATCH_SIZE + Cardinality(Keys) <= MAX_EVENTS

\* A beacon is ingested whole or not at all: its full batch and the vitals
\* drained with it stay within what ingest() reads, whatever order beacons
\* arrive in (index.ts:117, 135-141 with rum.ts:102).  With a beforeSend that
\* throws the buffer has no bound, and neither has the beacon after it; with a
\* batch size of 0 a batch still has the event that fills it.
WholeBeacons ==
  Roomy /\ "throws" \notin Answers => \A b \in beacons : b \cap ingested \in {{}, b}
=============================================================================
