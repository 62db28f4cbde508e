------------------------------- MODULE Kqueue -------------------------------
(***************************************************************************)
(* The registration of events in poller/kqueue.go.  kqueue has one filter  *)
(* per descriptor and event, so the poller keeps the events it believes    *)
(* registered in a map and passes kevent(2) the differences.  The callers  *)
(* are the connections of one loop: AddRead when one opens, EnableReadWrite*)
(* and EnableRead as its output is buffered and drained, then Del and the  *)
(* close of the descriptor, whose number is later used again.              *)
(***************************************************************************)
CONSTANTS Fds, MayFail

ASSUME KqueueAssumption == MayFail \in BOOLEAN

VARIABLES
    sockets,    \* Poller.sockets: the events stored for fd, {} for no entry
    filters,    \* kernel: the filters of fd that are enabled
    phase,      \* fd is "free", "open", "refused" (in use, but AddRead failed and
                \* the loop forgot it), or "deleted" and about to be closed
    buffered,   \* the connection's outBuffer holds data
    asked       \* history: the events of the last call for fd that returned nil

vars == <<sockets, filters, phase, buffered, asked>>

Events == {"read", "write"}

Init ==
    /\ sockets = [fd \in Fds |-> {}]
    /\ filters = [fd \in Fds |-> {}]
    /\ phase = [fd \in Fds |-> "free"]
    /\ buffered = [fd \in Fds |-> FALSE]
    /\ asked = [fd \in Fds |-> {}]

-----------------------------------------------------------------------------
\* The filters to add and to delete; in the change list, read comes first.
kEvents(old, new) == [add |-> new \ old, delete |-> old \ new]

\* kevent(2) applies the changes in order and stops at the first that fails:
\* EV_DELETE of a filter that is not there does; EV_ADD of one that is not
\* there may, for want of memory, and of one that is there only updates it.
Before(stop) == CASE stop = "read" -> {} [] stop = "write" -> {"read"} [] stop = "end" -> Events

CanStop(s, changes, stop) ==
    /\ changes.delete \cap Before(stop) \subseteq s
    /\ stop # "end" => /\ stop \notin s
                       /\ stop \in changes.delete \/ (MayFail /\ stop \in changes.add)

\* What it may return, and the filters it then leaves of the filters s.
Kevent(s, changes) ==
    {[ok |-> stop = "end",
      filters |-> (s \cup (changes.add \cap Before(stop))) \ (changes.delete \cap Before(stop))] :
        stop \in {x \in Events \cup {"end"} : CanStop(s, changes, x)}}

InUse(fd) == phase[fd] \in {"open", "refused"}

-----------------------------------------------------------------------------
\* Mutant: an entry left by the last connection with this number is trusted.
AddReadTrustsEntry(fd) ==
    /\ phase[fd] = "free"
    /\ sockets' = [sockets EXCEPT ![fd] = {"read"}]
    /\ \E r \in Kevent(filters[fd], kEvents(sockets[fd], {"read"})) :
          /\ filters' = [filters EXCEPT ![fd] = r.filters]
          /\ asked' = [asked EXCEPT ![fd] = IF r.ok THEN {"read"} ELSE {}]
          /\ phase' = [phase EXCEPT ![fd] = IF r.ok THEN "open" ELSE "refused"]
    /\ UNCHANGED buffered

\* Mutant: the entry is stored after a Kevent that succeeded.
AddReadAfterSuccess(fd) ==
    /\ phase[fd] = "free"
    /\ \E r \in Kevent(filters[fd], kEvents({}, {"read"})) :
          /\ filters' = [filters EXCEPT ![fd] = r.filters]
          /\ sockets' = IF r.ok THEN [sockets EXCEPT ![fd] = {"read"}] ELSE sockets
          /\ asked' = [asked EXCEPT ![fd] = IF r.ok THEN {"read"} ELSE {}]
          /\ phase' = [phase EXCEPT ![fd] = IF r.ok THEN "open" ELSE "refused"]
    /\ UNCHANGED buffered

\* AddSocketAndEnableRead.  The closure that calls it only logs the error, so
\* a connection that is refused can still be written to and closed.
AddRead(fd) ==
    /\ phase[fd] = "free"
    /\ sockets' = [sockets EXCEPT ![fd] = {"read"}]
    /\ \E r \in Kevent(filters[fd], kEvents({}, {"read"})) :
          /\ filters' = [filters EXCEPT ![fd] = r.filters]
          /\ asked' = [asked EXCEPT ![fd] = IF r.ok THEN {"read"} ELSE {}]
          /\ phase' = [phase EXCEPT ![fd] = IF r.ok THEN "open" ELSE "refused"]
    /\ UNCHANGED buffered

\* The common part of EnableReadWrite and EnableRead: newEvents is stored
\* when Kevent returns an error.
Enable(fd, newEvents) ==
    /\ sockets[fd] # {}
    /\ \E r \in Kevent(filters[fd], kEvents(sockets[fd], newEvents)) :
          /\ filters' = [filters EXCEPT ![fd] = r.filters]
          /\ sockets' = IF r.ok THEN sockets ELSE [sockets EXCEPT ![fd] = newEvents]
          /\ asked' = IF r.ok THEN [asked EXCEPT ![fd] = newEvents] ELSE asked

\* sendInLoop calls it when a write leaves data for an empty outBuffer.
EnableReadWrite(fd) ==
    /\ InUse(fd) /\ ~buffered[fd]
    /\ buffered' = [buffered EXCEPT ![fd] = TRUE]
    /\ Enable(fd, {"read", "write"})
    /\ UNCHANGED phase

\* handleWrite calls it when a write event has let it empty outBuffer.
EnableRead(fd) ==
    /\ phase[fd] = "open" /\ buffered[fd] /\ "write" \in filters[fd]
    /\ buffered' = [buffered EXCEPT ![fd] = FALSE]
    /\ Enable(fd, {"read"})
    /\ UNCHANGED phase

\* DeleteFdInLoop.  The entry is deleted when Kevent returns an error.
Del(fd) ==
    /\ InUse(fd) /\ sockets[fd] # {}
    /\ \E r \in Kevent(filters[fd], kEvents(sockets[fd], {})) :
          /\ filters' = [filters EXCEPT ![fd] = r.filters]
          /\ sockets' = IF r.ok THEN sockets ELSE [sockets EXCEPT ![fd] = {}]
          /\ asked' = IF r.ok THEN [asked EXCEPT ![fd] = {}] ELSE asked
    /\ phase' = [phase EXCEPT ![fd] = "deleted"]
    /\ UNCHANGED buffered

\* handleClose closes the descriptor, which removes its filters, and drops
\* the buffer.
Close(fd) ==
    /\ phase[fd] = "deleted"
    /\ phase' = [phase EXCEPT ![fd] = "free"]
    /\ filters' = [filters EXCEPT ![fd] = {}]
    /\ buffered' = [buffered EXCEPT ![fd] = FALSE]
    /\ UNCHANGED <<sockets, asked>>

Next == \E fd \in Fds :
    AddRead(fd) \/ EnableReadWrite(fd) \/ EnableRead(fd) \/ Del(fd) \/ Close(fd)

Spec == Init /\ [][Next]_vars

-----------------------------------------------------------------------------
\* The stored events are none, read, or both: never write alone, since
\* Poller.EnableWrite of kqueue does not exist.
TypeOK ==
    /\ sockets \in [Fds -> {{}, {"read"}, {"read", "write"}}]
    /\ filters \in [Fds -> SUBSET Events]
    /\ phase \in [Fds -> {"free", "open", "refused", "deleted"}]
    /\ buffered \in [Fds -> BOOLEAN]
    /\ asked \in [Fds -> SUBSET Events]

\* What a call that returned nil asked for is enabled on a registered fd, although the map is
\* written only on errors and keeps the entries of descriptors long closed:
\* the differences that kEvents computes from it never leave out a filter.
AskedIsEnabled ==
    \A fd \in Fds : phase[fd] = "open" => asked[fd] \subseteq filters[fd]

\* The "sync map load error" of EnableReadWrite, EnableRead and Del is never
\* returned: the entry of a descriptor in use is there.
EntryPresent ==
    \A fd \in Fds : InUse(fd) => "read" \in sockets[fd]

\* EnableRead changes the registered events of fd to the readable event, as
\* its comment says: no write filter is left.
EnableReadIsRead ==
    \A fd \in Fds : phase[fd] = "open" /\ asked[fd] = {"read"} => "write" \notin filters[fd]
=============================================================================
