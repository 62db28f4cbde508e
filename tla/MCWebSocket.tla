---------------------------- MODULE MCWebSocket -----------------------------
(* Instances of WebSocket for TLC. *)
EXTENDS WebSocket, SequencesExt

Good(key) == [key |-> key, val |-> "good", code |-> 0]
Bad(key) == [key |-> key, val |-> "bad", code |-> 0]

\* Callbacks refuse without a status or with this one.
MCCodes == {403}
Forbidden(key) == [key |-> key, val |-> "bad", code |-> 403]

Usual == <<Good("host"), Good("upgrade"), Good("connection"),
           Good("secVersion"), Good("secKey")>>

\* The required headers in order and backwards, as they are, with one of them
\* missing or wrong, with one more in any place, or with two subprotocol lists.
Protocols == [key : {"secProtocol"}, val : {"good", "none", "bad"}, code : {0}]

HeaderLists ==
    LET Base       == {Usual, Reverse(Usual)}
        With(S, H) == {InsertAt(s, i, h) : s \in S, i \in {1, 3, 5}, h \in H}
    IN  Base \cup With(Base, {Bad(k) : k \in Keys} \cup
                            {Good("host"), Good("other"), Forbidden("host"), Forbidden("other")})
          \cup With(With({Usual}, Protocols), Protocols)
          \cup {RemoveAt(s, i) : s \in Base, i \in 1..5}
          \cup {ReplaceAt(s, i, Bad(s[i].key)) : s \in Base, i \in 1..5}

MCRequests ==
    [line : {"ok"}, headers : HeaderLists, before : {Nil}]
    \cup [line : Lines, headers : {Usual}, before : {Nil, 0, 403}]

\* Lengths on both sides of the thresholds of the header and of Cipher, close
\* codes of every class.
Data == [op : {"text"}, len : {0, 13, 125, 126, 65535, 65536}, code : {NoCode}, maskZero : {TRUE}]
Control == [op : {"ping", "pong"}, len : {4}, code : {NoCode}, maskZero : {FALSE}]
Close == [op : {"close"}, len : {2}, maskZero : {FALSE},
          code : {999, 1000, 1004, 1005, 1006, 1015, 1016, 3000, 4999}]
         \cup [op : {"close"}, len : {0, 1}, maskZero : {FALSE}, code : {0}]

\* Every byte of a header.
MaxHeaderSize == 14
MCOffsets == 1..MaxHeaderSize

MCFrames == Data \cup Control \cup Close \cup {[op |-> "text", len |-> 126, code |-> NoCode, maskZero |-> FALSE]}
=============================================================================
