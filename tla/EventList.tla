----------------------------- MODULE EventList ------------------------------
(***************************************************************************)
(* The two linked lists of the event manager, pointer by pointer.          *)
(*                                                                         *)
(* The fire list is doubly linked through next and prev, the free list is  *)
(* singly linked through next.  The pointers run in lockstep with module   *)
(* EventQueue: every operation reads and writes only the pointers and the  *)
(* descriptors, and the lists reached through the pointers must be the     *)
(* sequences of EventQueue.                                                *)
(***************************************************************************)
EXTENDS EventQueue

NULL == -1
Pointer == Slots \cup {NULL}

VARIABLE links   \* next, prev: of each slot; fire, head: first_*_event

listVars == <<vars, links>>

LInit ==
    /\ Init
    /\ links = [next |-> [s \in Slots |-> IF s + 1 < MAX_EVENT THEN s + 1 ELSE NULL],
                prev |-> [s \in Slots |-> NULL],
                first_fire |-> NULL,
                first_free |-> 0]

\* The slots reached from a pointer; MAX_EVENT + 1 of them if it is a cycle.
Reached(first, next) ==
    LET walk[n \in 0 .. MAX_EVENT + 1] ==
            IF n = 0 THEN <<first>>
            ELSE LET w == walk[n - 1] IN
                 IF Last(w) = NULL THEN w ELSE Append(w, next[Last(w)])
    IN Front(walk[MAX_EVENT + 1])
-----------------------------------------------------------------------------
\* The first event of the fire list that expires later than this one.
InsertPos(l, s, expiry) ==
    LET list == Reached(l.first_fire, l.next)
    IN SelectInSeq(list, LAMBDA t : expiry[t] > expiry[s])

\* insert_event()
InsertEvent(l, s, expiry) ==
    LET list == Reached(l.first_fire, l.next)
        pos == InsertPos(l, s, expiry)
    IN IF l.first_fire = NULL THEN
           [l EXCEPT !.first_fire = s, !.prev[s] = NULL, !.next[s] = NULL]
       ELSE IF pos = 0 THEN
           [l EXCEPT !.next[Last(list)] = s, !.prev[s] = Last(list), !.next[s] = NULL]
       ELSE LET after == list[pos]
                before == l.prev[after]
            IN IF before # NULL THEN
                   [l EXCEPT !.next[before] = s, !.prev[s] = before,
                             !.next[s] = after, !.prev[after] = s]
               ELSE
                   [l EXCEPT !.first_fire = s, !.prev[s] = NULL,
                             !.next[s] = after, !.prev[after] = s]

\* The push on the free list that ends cancel_event() and a one-shot event.
PushFree(l, s) == [l EXCEPT !.next[s] = l.first_free, !.first_free = s]

\* register_event() takes the top of the free list.
PopFree(l) == [l EXCEPT !.first_free = l.next[l.first_free]]

\* Mutant: the new head keeps its prev.
PopFireKeepPrev(l) == [l EXCEPT !.first_fire = l.next[l.first_fire]]

\* update_event() takes the head of the fire list; its prev is left alone.
PopFire(l) ==
    LET second == l.next[l.first_fire]
    IN IF second # NULL
       THEN [l EXCEPT !.first_fire = second, !.prev[second] = NULL]
       ELSE [l EXCEPT !.first_fire = NULL]

\* cancel_event() of a slot that is on the fire list.
Unlink(l, s) ==
    LET before == l.prev[s]
        after == l.next[s]
        m == IF before # NULL
             THEN [l EXCEPT !.next[before] = after]
             ELSE [l EXCEPT !.first_fire = after]
    IN IF after # NULL THEN [m EXCEPT !.prev[after] = before] ELSE m
-----------------------------------------------------------------------------
LRegister(c) ==
    /\ RegisterEvent(c) \/ RegisterEventByClock(c)
    /\ links' = IF links.first_free = NULL
                THEN links
                ELSE InsertEvent(PopFree(links), links.first_free, expired_clock')

CancelSlot(s) == links' = PushFree(Unlink(links, s), s)

LCancel(c) ==
    /\ CancelEvent(c)
    /\ LET s == register_id[c]
       IN IF IsOwner(c, client[s]) /\ active[s] THEN CancelSlot(s) ELSE UNCHANGED links

LResetSlot ==
    /\ ResetSlot
    /\ IF active[scan] /\ loop_clock[scan] = 0 THEN CancelSlot(scan) ELSE UNCHANGED links

LFireLoop ==
    /\ FireLoop
    /\ links' = InsertEvent(PopFire(links), links.first_fire, expired_clock')

LFireOnce ==
    /\ FireOnce
    /\ links' = PushFree(PopFire(links), links.first_fire)

LNext ==
    \/ \E c \in Clients : LRegister(c)
    \/ \E c \in Holders : LCancel(c)
    \/ LFireLoop \/ LFireOnce \/ LResetSlot
    \/ /\ \/ BeginUpdate \/ CallbackReturns \/ EndUpdate \/ BeginReset \/ EndReset
          \/ \E c \in Holders : ForgetId(c)
          \/ \E d \in Devices : ResetDevice(d)
       /\ UNCHANGED links

LSpec == LInit /\ [][LNext]_listVars

\* The emulator is one thread of straight-line code: the loop of update_event()
\* goes on, and a callback returns.
LFairSpec ==
    /\ LSpec
    /\ WF_listVars(\/ LFireLoop
                   \/ LFireOnce
                   \/ (CallbackReturns \/ EndUpdate) /\ UNCHANGED links)
-----------------------------------------------------------------------------
(***************************************************************************)
(* The pointers hold exactly the sorted fire list and the stack of free    *)
(* descriptors: no cycle, no descriptor lost, none on both lists.  And     *)
(* prev is the inverse of next along the fire list, and NULL at its head:  *)
(* cancel_event() trusts it, although popping, freeing and reusing a       *)
(* descriptor leave old values in prev.                                    *)
(***************************************************************************)
PrevInvertsNext ==
    \A i \in 1 .. Len(fire) :
        links.prev[fire[i]] = IF i = 1 THEN NULL ELSE fire[i - 1]

PointersHoldLists ==
    /\ Reached(links.first_fire, links.next) = fire
    /\ Reached(links.first_free, links.next) = free
    /\ PrevInvertsNext

(***************************************************************************)
(* Every update_event() returns: its loop catches up with the clock, also  *)
(* when callbacks register events that are due within the update.          *)
(***************************************************************************)
UpdateTerminates == (pc = "update") ~> (pc = "run")
=============================================================================
