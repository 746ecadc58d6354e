------------------------------- MODULE Retry --------------------------------
(***************************************************************************)
(* httputil.Retry: a request is sent again after a connection error or a   *)
(* status that says the server is busy.  The function do, which sends the  *)
(* request once, belongs to the caller; what it may return is a parameter. *)
(***************************************************************************)
EXTENDS Naturals

CONSTANTS
    Caller,         \* those who make requests, one at a time each
    RetryCount,     \* DefaultRetryCount
    Outcomes        \* what happens to one attempt

\* A response; status 429, 503 or 509; a failed dial; a temporary and a permanent
\* failure of the name service; a connection that broke while in use; and a body
\* that cannot be rewound.
OutcomeKinds == {"answer", "busy", "dial", "dns", "nodns", "broken", "seek"}

ASSUME RetryAssumption == RetryCount \in Nat \ {0} /\ Outcomes \subseteq OutcomeKinds

VARIABLE call   \* the call of Retry that each caller is in

\* last is what rsp and err were set to by the last attempt, sent counts the
\* attempts that may have had an effect on the server.
NoCall == [pc |-> "none", body |-> FALSE, tries |-> 0, last |-> "none", sent |-> 0]

\* Attempts on which the request never reached the server, or was turned away.
Unsent == {"busy", "dial", "dns", "nodns", "seek"}

Errors == {"dial", "dns", "nodns", "broken"}

\* Mutant: every connection error is retried.
retriesAll(o, body) == o \in Errors \cup {"busy"}

\* The closure asks for another attempt: any error without a body, "Dial and DNS
\* errors" with one, and HTTP 429, 503, 509.
retries(o, body) == (o \in Errors /\ ~body) \/ o \in {"dial", "dns", "busy"}

\* The loop that unwraps the error ends at an OpError of a dial and at a DNSError
\* only: on another error it goes round forever.
spins(o, body) == body /\ o = "broken"

\* A caller without a body passes nil.
begin(c, body) ==
    /\ call[c].pc = "none"
    /\ call' = [call EXCEPT ![c] = [NoCall EXCEPT !.pc = "try", !.body = body]]

\* One round of retry.Retry with outcome o.  A body that cannot be rewound ends
\* it with what the round before has left in rsp and err.
attempt(c, o) ==
    /\ call[c].pc = "try"
    /\ call[c].tries < RetryCount
    /\ o \in Outcomes
    /\ o = "seek" => call[c].body
    /\ call' = [call EXCEPT ![c].tries = @ + 1,
                            ![c].last = IF o = "seek" THEN @ ELSE o,
                            ![c].sent = IF o \in Unsent THEN @ ELSE @ + 1,
                            ![c].pc = IF o = "seek" THEN "done"
                                      ELSE IF retries(o, call[c].body) THEN "try"
                                      ELSE IF spins(o, call[c].body) THEN "spin" ELSE "done"]

\* retry.Count: no attempt is left, rsp and err are those of the last one.
giveUp(c) ==
    /\ call[c].pc = "try" /\ call[c].tries = RetryCount
    /\ call' = [call EXCEPT ![c].pc = "done"]

\* Retry has returned a response that the caller can read.
Answered(c) == call[c].pc = "done" /\ call[c].last = "answer"

\* ... or something else: an error, a response whose body has been closed, or
\* neither response nor error.
Unanswered(c) == call[c].pc = "done" /\ call[c].last # "answer"

-----------------------------------------------------------------------------
(* Properties *)

\* A request with a body is not sent again once the server may have acted on it:
\* no upload is applied twice.
SentOnce == \A c \in Caller : call[c].body => call[c].sent <= 1
=============================================================================
