---------------------------- MODULE KqueueProofs ----------------------------
(***************************************************************************)
(* The map of kqueue.go against the kernel's filters, for any set of       *)
(* descriptor numbers.  AskedIsEnabled is not inductive: what makes it so  *)
(* is that the map is right about the write filter, or the connection has  *)
(* output it can never drain and calls neither Enable again.               *)
(***************************************************************************)
EXTENDS Kqueue, TLAPS

\* The entry of a descriptor in use says "read", and "write" only after an
\* EnableReadWrite that failed, which left the filter out and the data in.
\* The read filter of a registered descriptor is on, and so is the write
\* filter if it was asked for; a refused one asks for it once, when it buffers.
FdInv(fd) ==
    /\ InUse(fd) => \/ sockets[fd] = {"read"}
                    \/ /\ sockets[fd] = {"read", "write"}
                       /\ buffered[fd] /\ "write" \notin filters[fd]
                       /\ "write" \notin asked[fd]
    /\ phase[fd] = "open" => "read" \in filters[fd] /\ asked[fd] \subseteq filters[fd]
    /\ phase[fd] = "refused" /\ ~buffered[fd] => "write" \notin asked[fd]

Inv == TypeOK /\ \A fd \in Fds : FdInv(fd)

\* Each result of kevent(2) belongs to the change it stops at.
LEMMA KeventStop ==
    ASSUME NEW s, NEW changes, NEW r \in Kevent(s, changes)
    PROVE  \E x \in Events \cup {"end"} :
              /\ CanStop(s, changes, x)
              /\ r = [ok |-> x = "end",
                      filters |-> (s \cup (changes.add \cap Before(x))) \ (changes.delete \cap Before(x))]
BY Zenon DEF Kevent

\* kevent(2) leaves a set of events, whatever the changes.
LEMMA KeventType ==
    ASSUME NEW s \in SUBSET Events, NEW old \in SUBSET Events, NEW new \in SUBSET Events,
           NEW r \in Kevent(s, kEvents(old, new))
    PROVE  r.ok \in BOOLEAN /\ r.filters \in SUBSET Events
<1> DEFINE c == kEvents(old, new)
<1>1. c.add \in SUBSET Events
  BY DEF kEvents
<1> HIDE DEF c
<1>2. PICK x \in Events \cup {"end"} :
         r = [ok |-> x = "end", filters |-> (s \cup (c.add \cap Before(x))) \ (c.delete \cap Before(x))]
  BY KeventStop DEF c
<1> QED BY <1>1, <1>2

\* The one change of AddRead is made, or fails.
LEMMA KeventAddRead ==
    ASSUME NEW s \in SUBSET Events, NEW r \in Kevent(s, kEvents({}, {"read"})), r.ok
    PROVE  "read" \in r.filters
<1> DEFINE c == kEvents({}, {"read"})
<1>1. c.add = {"read"} /\ c.delete = {}
  BY DEF kEvents
<1> HIDE DEF c
<1>2. PICK x \in Events \cup {"end"} :
         r = [ok |-> x = "end", filters |-> (s \cup (c.add \cap Before(x))) \ (c.delete \cap Before(x))]
  BY KeventStop DEF c
<1> QED BY <1>1, <1>2, Zenon DEF Before, Events

\* The one change of EnableReadWrite, from a map that says read: the write filter
\* is added, or was not there and is not.  The read filter stays.
LEMMA KeventAddWrite ==
    ASSUME NEW s \in SUBSET Events, NEW r \in Kevent(s, kEvents({"read"}, {"read", "write"}))
    PROVE  /\ r.ok => r.filters = s \cup {"write"}
           /\ ~r.ok => "write" \notin s /\ r.filters = s
<1> DEFINE c == kEvents({"read"}, {"read", "write"})
<1>1. c.add = {"write"} /\ c.delete = {}
  BY DEF kEvents
<1> HIDE DEF c
<1>2. PICK x \in Events \cup {"end"} :
         /\ CanStop(s, c, x)
         /\ r = [ok |-> x = "end", filters |-> (s \cup (c.add \cap Before(x))) \ (c.delete \cap Before(x))]
  BY KeventStop DEF c
<1>3. x # "read"
  BY <1>1, <1>2 DEF CanStop
<1> QED BY <1>1, <1>2, <1>3, Zenon DEF CanStop, Before, Events

\* EnableRead from a map that says read makes no change, and cannot fail.
LEMMA KeventNone ==
    ASSUME NEW s \in SUBSET Events, NEW r \in Kevent(s, kEvents({"read"}, {"read"}))
    PROVE  r.ok /\ r.filters = s
<1> DEFINE c == kEvents({"read"}, {"read"})
<1>1. c.add = {} /\ c.delete = {}
  BY DEF kEvents
<1> HIDE DEF c
<1>2. PICK x \in Events \cup {"end"} :
         /\ CanStop(s, c, x)
         /\ r = [ok |-> x = "end", filters |-> (s \cup (c.add \cap Before(x))) \ (c.delete \cap Before(x))]
  BY KeventStop DEF c
<1>3. x = "end"
  BY <1>1, <1>2 DEF CanStop
<1> QED BY <1>1, <1>2, <1>3, Zenon

\* Initially the map is empty and no descriptor is in use.
LEMMA InitInv == Init => Inv
BY DEF Init, Inv, TypeOK, FdInv, InUse, Events

\* A descriptor that a call for another one leaves alone keeps its invariant:
\* the entries of Poller.sockets are independent.
LEMMA OtherFd ==
    ASSUME NEW g \in Fds, FdInv(g), sockets'[g] = sockets[g], filters'[g] = filters[g],
           phase'[g] = phase[g], buffered'[g] = buffered[g], asked'[g] = asked[g]
    PROVE  FdInv(g)'
BY DEF FdInv, InUse

\* AddRead, whatever entry the number's last user left in the map.
LEMMA AddReadInv == ASSUME Inv, NEW fd \in Fds, AddRead(fd) PROVE Inv'
<1>1. PICK r \in Kevent(filters[fd], kEvents({}, {"read"})) :
         /\ filters' = [filters EXCEPT ![fd] = r.filters]
         /\ asked' = [asked EXCEPT ![fd] = IF r.ok THEN {"read"} ELSE {}]
         /\ phase' = [phase EXCEPT ![fd] = IF r.ok THEN "open" ELSE "refused"]
  BY Zenon DEF AddRead
<1>2. filters[fd] \in SUBSET Events /\ {} \in SUBSET Events /\ {"read"} \in SUBSET Events
  BY DEF Inv, TypeOK, Events
<1>3. r.ok \in BOOLEAN /\ r.filters \in SUBSET Events
  BY <1>2, KeventType, Zenon
<1>4. r.ok => "read" \in r.filters
  BY <1>2, KeventAddRead
<1>5. TypeOK'
  BY <1>1, <1>3 DEF Inv, TypeOK, AddRead, Events
<1>6. FdInv(fd)'
  BY <1>1, <1>3, <1>4 DEF Inv, TypeOK, FdInv, InUse, AddRead
<1>7. \A g \in Fds : g # fd => FdInv(g)'
  BY <1>1, OtherFd DEF Inv, TypeOK, AddRead
<1> QED BY <1>5, <1>6, <1>7 DEF Inv

\* EnableReadWrite is called with outBuffer empty until now, so the map says
\* read; a failure leaves the second case of FdInv.
LEMMA EnableReadWriteInv == ASSUME Inv, NEW fd \in Fds, EnableReadWrite(fd) PROVE Inv'
<1> DEFINE new == {"read", "write"}
<1>1. TypeOK /\ FdInv(fd) /\ InUse(fd) /\ ~buffered[fd] /\ sockets[fd] = {"read"}
  BY DEF Inv, FdInv, EnableReadWrite
<1>2. PICK r \in Kevent(filters[fd], kEvents({"read"}, new)) :
         /\ filters' = [filters EXCEPT ![fd] = r.filters]
         /\ sockets' = IF r.ok THEN sockets ELSE [sockets EXCEPT ![fd] = new]
         /\ asked' = IF r.ok THEN [asked EXCEPT ![fd] = new] ELSE asked
  BY <1>1, Zenon DEF EnableReadWrite, Enable
<1>3. /\ r.ok => r.filters = filters[fd] \cup {"write"}
      /\ ~r.ok => "write" \notin filters[fd] /\ r.filters = filters[fd]
  BY <1>1, KeventAddWrite DEF TypeOK
<1>4. TypeOK'
  BY <1>1, <1>2, <1>3 DEF TypeOK, EnableReadWrite, Events
<1>5. FdInv(fd)'
  BY <1>1, <1>2, <1>3 DEF FdInv, InUse, TypeOK, EnableReadWrite, Events
<1>6. \A g \in Fds : g # fd => FdInv(g)'
  BY <1>2, OtherFd, Zenon DEF Inv, TypeOK, EnableReadWrite
<1> QED BY <1>4, <1>5, <1>6 DEF Inv

\* EnableRead is called after a write event, so the map says read and the call
\* changes nothing but the buffer: the write filter stays on.
LEMMA EnableReadInv == ASSUME Inv, NEW fd \in Fds, EnableRead(fd) PROVE Inv'
<1>1. TypeOK /\ FdInv(fd) /\ phase[fd] = "open" /\ sockets[fd] = {"read"}
  BY DEF Inv, FdInv, InUse, EnableRead
<1>2. PICK r \in Kevent(filters[fd], kEvents({"read"}, {"read"})) :
         /\ filters' = [filters EXCEPT ![fd] = r.filters]
         /\ sockets' = IF r.ok THEN sockets ELSE [sockets EXCEPT ![fd] = {"read"}]
         /\ asked' = IF r.ok THEN [asked EXCEPT ![fd] = {"read"}] ELSE asked
  BY <1>1, Zenon DEF EnableRead, Enable
<1>3. r.ok /\ r.filters = filters[fd]
  BY <1>1, KeventNone DEF TypeOK
<1>4. TypeOK'
  BY <1>1, <1>2, <1>3 DEF TypeOK, EnableRead, Events
<1>5. FdInv(fd)'
  BY <1>1, <1>2, <1>3 DEF FdInv, InUse, TypeOK, EnableRead, Events
<1>6. \A g \in Fds : g # fd => FdInv(g)'
  BY <1>2, OtherFd, Zenon DEF Inv, TypeOK, EnableRead
<1> QED BY <1>4, <1>5, <1>6 DEF Inv

\* Del, whether it finds both filters or fails on one that is missing.
LEMMA DelInv == ASSUME Inv, NEW fd \in Fds, Del(fd) PROVE Inv'
<1>1. TypeOK /\ filters[fd] \in SUBSET Events /\ sockets[fd] \in SUBSET Events /\ {} \in SUBSET Events
  BY DEF Inv, TypeOK, Events
<1>2. PICK r \in Kevent(filters[fd], kEvents(sockets[fd], {})) :
         /\ filters' = [filters EXCEPT ![fd] = r.filters]
         /\ sockets' = IF r.ok THEN sockets ELSE [sockets EXCEPT ![fd] = {}]
         /\ asked' = IF r.ok THEN [asked EXCEPT ![fd] = {}] ELSE asked
  BY Zenon DEF Del
<1>3. r.ok \in BOOLEAN /\ r.filters \in SUBSET Events
  BY <1>1, KeventType, Zenon
<1>4. TypeOK'
  BY <1>1, <1>2, <1>3 DEF TypeOK, Events, Del
<1>5. FdInv(fd)'
  BY <1>1 DEF FdInv, InUse, TypeOK, Del
<1>6. \A g \in Fds : g # fd => FdInv(g)'
  BY <1>2, OtherFd DEF Inv, TypeOK, Del
<1> QED BY <1>4, <1>5, <1>6 DEF Inv

\* Every step of the connections that share the poller preserves the agreement
\* of the map with the filters.
LEMMA NextInv == Inv /\ [Next]_vars => Inv'
<1> SUFFICES ASSUME Inv, [Next]_vars PROVE Inv'
  OBVIOUS
<1>1. ASSUME NEW fd \in Fds, AddRead(fd) PROVE Inv'
  BY <1>1, AddReadInv
<1>2. ASSUME NEW fd \in Fds, EnableReadWrite(fd) PROVE Inv'
  BY <1>2, EnableReadWriteInv
<1>3. ASSUME NEW fd \in Fds, EnableRead(fd) PROVE Inv'
  BY <1>3, EnableReadInv
<1>4. ASSUME NEW fd \in Fds, Del(fd) PROVE Inv'
  BY <1>4, DelInv
<1>5. ASSUME NEW fd \in Fds, Close(fd) PROVE Inv'
  BY <1>5 DEF Inv, TypeOK, FdInv, InUse, Close, Events
<1>6. CASE UNCHANGED vars
  BY <1>6 DEF Inv, TypeOK, FdInv, InUse, vars
<1> QED BY <1>1, <1>2, <1>3, <1>4, <1>5, <1>6 DEF Next

\* The map of kqueue.go and the filters agree in the sense of Inv, always.
LEMMA InvHolds == Spec => []Inv
BY InitInv, NextInv, PTL DEF Spec

\* Poller.sockets never holds the write event alone.
THEOREM TypeCorrect == Spec => []TypeOK
<1>1. Inv => TypeOK
  BY DEF Inv
<1> QED BY <1>1, InvHolds, PTL

\* What a call of EnableReadWrite, EnableRead or AddRead that returned nil asked
\* for is enabled, for any number of descriptors, and however often reused.
THEOREM NilMeansEnabled == Spec => []AskedIsEnabled
<1>1. Inv => AskedIsEnabled
  BY DEF Inv, FdInv, AskedIsEnabled
<1> QED BY <1>1, InvHolds, PTL

\* EnableReadWrite, EnableRead and Del never return their "sync map load error".
THEOREM NoLoadError == Spec => []EntryPresent
<1>1. Inv => EntryPresent
  BY DEF Inv, FdInv, EntryPresent
<1> QED BY <1>1, InvHolds, PTL
=============================================================================
