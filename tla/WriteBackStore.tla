--------------------------- MODULE WriteBackStore ---------------------------
(***************************************************************************)
(* What src/a3/fs/cache.h promises its callers (inode.c reads and writes   *)
(* every sector through it), with the cache itself left out: a store with  *)
(* one value per sector as its callers see it, and one value per sector    *)
(* that a restart would find.  A write is visible at once and durable      *)
(* later, at a moment the store chooses; a crash loses what is not durable *)
(* yet and nothing else.                                                   *)
(***************************************************************************)
CONSTANTS Sectors, Data

VARIABLES view,    \* what a read of each sector returns
          stable,  \* what the disk holds
          reply    \* the last answered call

vars == <<view, stable, reply>>

\* The answers of buffer_cache_read, buffer_cache_write and
\* buffer_cache_close; "start" when none was given since the process started.
Replies == [op : {"start", "read", "write", "close"},
            sector : Sectors, data : Data]

TypeOK == /\ view \in [Sectors -> Data]
          /\ stable \in [Sectors -> Data]
          /\ reply \in Replies

Init == /\ view \in [Sectors -> Data]
        /\ stable = view
        /\ reply \in {r \in Replies : r.op = "start"}

Read(s) == /\ reply' = [op |-> "read", sector |-> s, data |-> view[s]]
           /\ UNCHANGED <<view, stable>>

Write(s, d) == /\ view' = [view EXCEPT ![s] = d]
               /\ reply' = [op |-> "write", sector |-> s, data |-> d]
               /\ UNCHANGED stable

\* The store makes the current value of one sector durable.
Sync(s) == /\ stable' = [stable EXCEPT ![s] = view[s]]
           /\ UNCHANGED <<view, reply>>

\* A close is answered only when every write is durable.
Close == /\ stable = view
         /\ reply' = [reply EXCEPT !.op = "close"]
         /\ UNCHANGED <<view, stable>>

\* The process dies and starts again: its callers see what the disk holds.
Crash == /\ view' = stable
         /\ reply' = [reply EXCEPT !.op = "start"]
         /\ UNCHANGED stable

Next == \/ \E s \in Sectors : Read(s) \/ Sync(s)
        \/ \E s \in Sectors, d \in Data : Write(s, d)
        \/ Close
        \/ Crash

Spec == Init /\ [][Next]_vars
=============================================================================
