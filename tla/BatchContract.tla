--------------------------- MODULE BatchContract ---------------------------
(***************************************************************************)
(* What the batch life cycle promises, whatever requests, extraction runs  *)
(* and restarts do underneath: a batch moves only along the edges of the   *)
(* transition table of services/batchLifecycle.ts, its screenshots change  *)
(* only while it is a draft, and no batch is ever extracted, reviewed or   *)
(* applied without one.  The module BatchLifecycle implements it.          *)
(***************************************************************************)
EXTENDS Naturals

CONSTANTS Batches,     \* identifiers a batch can be given
          MaxImages    \* screenshots one batch may hold (40 in the code)

VARIABLES status,      \* batch -> its status, "absent" before it exists
          images       \* batch -> number of screenshots attached to it

contractVars == <<status, images>>

\* The moves the transition table allows; "undone" and "discarded" have none.
Edges == { <<"draft", "submitted">>,             <<"draft", "discarded">>,
           <<"submitted", "extracting">>,        <<"submitted", "extraction-failed">>,
           <<"extracting", "in-review">>,        <<"extracting", "extraction-failed">>,
           <<"extraction-failed", "submitted">>, <<"extraction-failed", "discarded">>,
           <<"in-review", "applied">>,           <<"in-review", "discarded">>,
           <<"applied", "undone">> }

ContractInit ==
  /\ status = [b \in Batches |-> "absent"]
  /\ images = [b \in Batches |-> 0]

\* A batch starts as an empty draft.
Open(b) ==
  /\ status[b] = "absent"
  /\ status' = [status EXCEPT ![b] = "draft"]
  /\ UNCHANGED images

\* A batch derived from an earlier one starts submitted, with its screenshots.
Derive(b) ==
  /\ status[b] = "absent"
  /\ status' = [status EXCEPT ![b] = "submitted"]
  /\ \E n \in 1..MaxImages : images' = [images EXCEPT ![b] = n]

\* Screenshots come and go only while the batch is a draft.
Collect(b) ==
  /\ status[b] = "draft"
  /\ \E n \in 0..MaxImages : images' = [images EXCEPT ![b] = n]
  /\ UNCHANGED status

\* Every other move follows the table, and only a discard may leave a draft
\* that holds nothing.
Move(b) ==
  \E to \in {e[2] : e \in Edges} :
    /\ <<status[b], to>> \in Edges
    /\ to # "discarded" => images[b] > 0
    /\ status' = [status EXCEPT ![b] = to]
    /\ UNCHANGED images

ContractNext == \E b \in Batches : Open(b) \/ Derive(b) \/ Collect(b) \/ Move(b)

ContractSpec == ContractInit /\ [][ContractNext]_contractVars
=============================================================================
