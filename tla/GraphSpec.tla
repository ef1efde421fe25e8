------------------------------ MODULE GraphSpec -----------------------------
(***************************************************************************)
(* What the board daemon promises its clients: every request takes effect  *)
(* at once, in some order, and a graph computes what its ops computed one  *)
(* after the other would.  A graph that fails may leave anything in the    *)
(* tensors it writes, and nothing else.                                    *)
(***************************************************************************)
EXTENDS GraphOps

CONSTANTS Clients, Init_store

VARIABLES store,   \* the tensors
          todo,    \* requests each client still has to make, in order
          answer   \* the last answer each client got

avars == <<store, todo, answer>>

\* A request takes effect on the store and is answered.
Answer(c, a) == /\ todo' = [todo EXCEPT ![c] = Tail(@)]
                /\ answer' = [answer EXCEPT ![c] = a]

AUpload(c) ==
  LET r == Head(todo[c])
  IN  /\ r.kind = "upload"
      /\ store' = Put(store, r.t, r.data)
      /\ Answer(c, [ok |-> TRUE, data |-> <<>>])

ADownload(c) ==
  LET r == Head(todo[c])
  IN  /\ r.kind = "download"
      /\ Answer(c, [ok |-> TRUE, data |-> Vals(store, r.t)])
      /\ UNCHANGED store

AGraph(c) ==
  LET r == Head(todo[c])
  IN  /\ r.kind = "graph"
      /\ \A i \in DOMAIN r.ops : Works(r.ops[i])
      /\ store' = GraphEffect(store, r.ops)
      /\ Answer(c, [ok |-> TRUE, data |-> <<>>])

AFail(c) ==
  LET r       == Head(todo[c])
      written == IF r.kind = "graph" THEN Written(r.ops) ELSE {}
  IN  /\ r.kind \notin {"upload", "download"}
      /\ DOMAIN store' = DOMAIN store
      /\ \A x \in DOMAIN store \ written : store'[x] = store[x]
      /\ Answer(c, [ok |-> FALSE, data |-> <<>>])

AInit == /\ store = Init_store
         /\ answer = [c \in Clients |-> [ok |-> TRUE, data |-> <<>>]]

ANext == \E c \in Clients : /\ todo[c] # <<>>
                            /\ AUpload(c) \/ ADownload(c) \/ AGraph(c) \/ AFail(c)

ASpec == AInit /\ [][ANext]_avars
=============================================================================
