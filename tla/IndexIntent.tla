---------------------------- MODULE IndexIntent ----------------------------
(***************************************************************************)
(* What the index queue of the Python worker promises its host, without    *)
(* job rows, ids or lazily cancelled work: at most one waiting request per *)
(* node, one execution slot, and a slot whose work is put back, or dropped *)
(* in favour of a newer request, when the worker dies in the middle.       *)
(***************************************************************************)
CONSTANTS Nodes,     \* node ids of the virtual file system
          Types,     \* kinds of request: index a node, delete a node
          None       \* no request

VARIABLES asked,     \* asked[n]: the last request accepted for node n
          pending,   \* pending[n]: the request waiting for node n, or None
          slot       \* the set holding the executed request; empty when idle

vars == <<asked, pending, slot>>

Init == /\ asked = [n \in Nodes |-> None]
        /\ pending = [n \in Nodes |-> None]
        /\ slot = {}

(* A new request waits in place of the one before it; only a request for   *)
(* what is being executed, with nothing newer waiting, is absorbed.        *)
Ask(n, t) == /\ asked' = [asked EXCEPT ![n] = t]
             /\ \/ pending' = [pending EXCEPT ![n] = t]
                \/ /\ slot = {[node |-> n, type |-> t]}
                   /\ pending[n] = None
                   /\ UNCHANGED pending
             /\ UNCHANGED slot

\* The empty slot is taken by a waiting request.
Begin(n) == /\ slot = {}
            /\ pending[n] # None
            /\ slot' = {[node |-> n, type |-> pending[n]]}
            /\ pending' = [pending EXCEPT ![n] = None]
            /\ UNCHANGED asked

\* The executed request ends, with success or with an error.
End == /\ slot # {}
       /\ slot' = {}
       /\ UNCHANGED <<asked, pending>>

\* After a crash the interrupted request waits again, unless a newer one does.
Recover(n, t) == /\ slot = {[node |-> n, type |-> t]}
                 /\ pending' = [pending EXCEPT ![n] = IF @ = None THEN t ELSE @]
                 /\ slot' = {}
                 /\ UNCHANGED asked

Next == \E n \in Nodes : \/ \E t \in Types : Ask(n, t) \/ Recover(n, t)
                         \/ Begin(n)
                         \/ End

Spec == Init /\ [][Next]_vars
=============================================================================
