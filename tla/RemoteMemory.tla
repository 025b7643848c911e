----------------------------- MODULE RemoteMemory -----------------------------
(***************************************************************************)
(* What the Ethernet firmware promises the host: the memory of the other   *)
(* chips, which several queues of commands read and write.  Each queue is  *)
(* served in order and every part of every command takes effect once, at   *)
(* some moment between the command's issue and its answer.                 *)
(***************************************************************************)
EXTENDS Naturals, Sequences

CONSTANTS
  Queues,       \* the queues of commands
  Commands,     \* the commands, each with its data
  Parts(_, _),  \* Parts(q, m): the places which command m of queue q goes to, in order
  IsRead(_),    \* whether a command reads
  InitMem       \* the memory's contents at first

VARIABLES
  mem,       \* mem[chip][k]: the contents of the memory
  todo,      \* todo[q]: the commands not answered yet
  served,    \* served[q]: how many parts of the first of them have taken effect
  got,       \* got[q]: what those parts have read
  answers    \* answers[q]: the answers to the reads

vars == <<mem, todo, served, got, answers>>

Init ==
  /\ mem = InitMem
  /\ todo = [q \in Queues |-> <<>>]
  /\ served = [q \in Queues |-> 0]
  /\ got = [q \in Queues |-> <<>>]
  /\ answers = [q \in Queues |-> <<>>]

Issue(q, m) ==
  /\ todo' = [todo EXCEPT ![q] = Append(@, m)]
  /\ UNCHANGED <<mem, served, got, answers>>

Perform(q) ==
  /\ todo[q] # <<>>
  /\ LET m == Head(todo[q])
         place == Parts(q, m)[served[q] + 1]
     IN /\ served[q] < Len(Parts(q, m))
        /\ IF IsRead(m)
           THEN /\ got' = [got EXCEPT ![q] = Append(@, mem[place[1]][place[2]])]
                /\ UNCHANGED mem
           ELSE /\ mem' = [mem EXCEPT ![place[1]][place[2]] = m.data]
                /\ UNCHANGED got
  /\ served' = [served EXCEPT ![q] = @ + 1]
  /\ UNCHANGED <<todo, answers>>

Answer(q) ==
  /\ todo[q] # <<>>
  /\ served[q] = Len(Parts(q, Head(todo[q])))
  /\ answers' = IF IsRead(Head(todo[q]))
                THEN [answers EXCEPT ![q] = Append(@, got[q])] ELSE answers
  /\ todo' = [todo EXCEPT ![q] = Tail(@)]
  /\ served' = [served EXCEPT ![q] = 0]
  /\ got' = [got EXCEPT ![q] = <<>>]
  /\ UNCHANGED mem

Next == \E q \in Queues : (\E m \in Commands : Issue(q, m)) \/ Perform(q) \/ Answer(q)

Spec == Init /\ [][Next]_vars
===============================================================================
