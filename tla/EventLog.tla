------------------------------ MODULE EventLog ------------------------------
(***************************************************************************)
(* What the JSONL streams promise (docs/jsonl-spec.md, section 7): a phone *)
(* produces events, the desktop consumes each of them once and in order.   *)
(* One ingest pass may consume several events at a time.                   *)
(***************************************************************************)
EXTENDS Naturals, Sequences, SequencesExt

CONSTANT Events

VARIABLES produced,   \* the events written so far, oldest first
          consumed    \* the events the desktop has processed, in its order
vars == <<produced, consumed>>

Init == produced = <<>> /\ consumed = <<>>

Produce(e) == produced' = Append(produced, e) /\ UNCHANGED consumed

Consume == /\ IsPrefix(consumed, consumed')
           /\ IsPrefix(consumed', produced)
           /\ UNCHANGED produced

Next == (\E e \in Events : Produce(e)) \/ Consume

Spec == Init /\ [][Next]_vars
=============================================================================
