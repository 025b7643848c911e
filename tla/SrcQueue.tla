------------------------------- MODULE SrcQueue -------------------------------
(***************************************************************************)
(* What the banks of SrcBanks promise: for each Src a queue of at most two *)
(* banks' contents, which the unpackers append to and the Matrix Unit      *)
(* takes from.  Only the Matrix Unit changes what is in the queue: its     *)
(* moves and transposes the oldest entry, and a clear all of them.         *)
(***************************************************************************)
EXTENDS Sequences, Naturals

CONSTANTS Srcs, Data, ZeroData

VARIABLE queue

Init == queue = [s \in Srcs |-> <<>>]

Put(s, v) == Len(queue[s]) < 2 /\ queue' = [queue EXCEPT ![s] = Append(@, v)]

\* An instruction releases the oldest entry of every Src of S.
Take(S) ==
  /\ \A s \in S : queue[s] # <<>>
  /\ queue' = [s \in Srcs |-> IF s \in S THEN Tail(queue[s]) ELSE queue[s]]

ChangeOldest(S, v) ==
  /\ \A s \in S : queue[s] # <<>>
  /\ queue' = [s \in Srcs |-> IF s \in S THEN [queue[s] EXCEPT ![1] = v] ELSE queue[s]]

ClearAll == queue' = [s \in Srcs |-> [n \in 1 .. Len(queue[s]) |-> ZeroData]]

Next ==
  \/ \E s \in Srcs, v \in Data : Put(s, v)
  \/ \E S \in SUBSET Srcs : Take(S) \/ \E v \in Data : ChangeOldest(S, v)
  \/ ClearAll

Spec == Init /\ [][Next]_queue
=============================================================================
