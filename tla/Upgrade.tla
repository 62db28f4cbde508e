------------------------------ MODULE Upgrade -------------------------------
(***************************************************************************)
(* The handshake of plugins/websocket/ws: what Upgrade answers to a        *)
(* complete HTTP request.  A request is what the parsers make of its text: *)
(*   line     "ok", or what is wrong with the request line: it does not    *)
(*            parse, asks for another protocol version or method, or       *)
(*            OnRequest refuses it;                                        *)
(*   headers  its header lines in order, each with a key and a verdict on  *)
(*            its value: "good", "bad", or for a subprotocol list "none"   *)
(*            when no subprotocol of it is selected.  The verdict is that  *)
(*            of Upgrade's test, or of the callback for the header, and    *)
(*            code is the status of the callback's error;                  *)
(*   before   the status of OnBeforeUpgrade's error, Nil if it accepts.    *)
(* A callback gives its error a status with RejectConnectionError and      *)
(* RejectionStatus; an error without one counts as status 0.               *)
(***************************************************************************)
EXTENDS Integers, Sequences

CONSTANT Codes        \* statuses that callbacks give their errors

ASSUME CodesAssumption == Codes \subseteq Nat \ {0}

Required == {"host", "upgrade", "connection", "secVersion", "secKey"}
Keys == Required \cup {"secProtocol", "secExtensions", "other", "malformed"}
Lines == {"ok", "malformed", "badProtocol", "badMethod", "refused"}

\* No error, or no response.
Nil == -1

Responses == {Nil, 101, 400, 426, 500} \cup Codes

\* The error, as the status it carries, when a header line is found wrong:
\* one of Upgrade's own, or that of OnHost or OnHeader.
Rejection(h) ==
    CASE h.key = "secVersion" -> 426
      [] h.key \in {"host", "other"} -> h.code
      [] OTHER -> 400

\* Mutant: the loop goes on after an error.
HeaderLineGoesOn(s, h) ==
    [s EXCEPT !.seen = @ \cup ({h.key} \cap Required),
              !.err = IF h.val = "bad" THEN Rejection(h) ELSE Nil]

\* One turn of the loop over the header lines.  Once a subprotocol has been
\* selected further lists are not looked at.
HeaderLine(s, h) ==
    IF s.err # Nil \/ (h.key = "secProtocol" /\ s.protocol) THEN s
    ELSE [seen     |-> s.seen \cup ({h.key} \cap Required),
          protocol |-> s.protocol \/ (h.key = "secProtocol" /\ h.val = "good"),
          err      |-> IF h.val = "bad" THEN Rejection(h) ELSE Nil]

\* The loop, as a function of the number of turns.
HeaderLines(headers) ==
    LET after[n \in 0..Len(headers)] ==
            IF n = 0 THEN [seen |-> {}, protocol |-> FALSE, err |-> Nil]
            ELSE HeaderLine(after[n - 1], headers[n])
    IN  after[Len(headers)]

\* The error with which Upgrade leaves a request whose request line is right:
\* that of the loop, that of a missing header, or OnBeforeUpgrade's.
UpgradeError(req) ==
    LET s == HeaderLines(req.headers)
    IN  IF s.err # Nil THEN s.err ELSE IF s.seen # Required THEN 400 ELSE req.before

\* Upgrade returns no error.
UpgradeOk(req) == req.line = "ok" /\ UpgradeError(req) = Nil

\* Mutant: an error without a status is written as it is.
StatusAsItIs(code) == code

\* The status written for an error.
Status(code) == IF code = 0 THEN 500 ELSE code

\* After an error in the request line Upgrade returns without a response.
UpgradeResponse(req) ==
    IF req.line # "ok" THEN Nil
    ELSE IF UpgradeOk(req) THEN 101 ELSE Status(UpgradeError(req))

-----------------------------------------------------------------------------
(* What the handshake should come to, without the loop *)

\* A header line is an objection unless a subprotocol was selected before it.
Objection(req, i) ==
    /\ req.headers[i].val = "bad"
    /\ ~ /\ req.headers[i].key = "secProtocol"
         /\ \E j \in 1..(i - 1) :
               req.headers[j].key = "secProtocol" /\ req.headers[j].val = "good"

Objections(req) == {i \in DOMAIN req.headers : Objection(req, i)}

FirstObjection(req) == CHOOSE i \in Objections(req) : \A j \in Objections(req) : i <= j

\* The request opens a WebSocket: every required header is there, in whatever
\* order and among whatever others, and nobody objects.
Acceptable(req) ==
    /\ req.line = "ok" /\ req.before = Nil
    /\ Required \subseteq {req.headers[i].key : i \in DOMAIN req.headers}
    /\ Objections(req) = {}

\* The response that tells the client what is wrong: the status of the first
\* objection, 500 for a callback's that has none.
Refusal(req) ==
    Status(IF Objections(req) # {} THEN Rejection(req.headers[FirstObjection(req)])
           ELSE IF ~(Required \subseteq {req.headers[i].key : i \in DOMAIN req.headers})
                THEN 400 ELSE req.before)
=============================================================================
