----------------------------- MODULE Middleware -----------------------------
(***************************************************************************)
(* internal/server/middleware: the response writer that Logging puts       *)
(* around the one of net/http, and what Recovery does with it after a      *)
(* panic.  The status a handler sets is held back until the first Write,   *)
(* so that Recovery can still replace it.                                  *)
(***************************************************************************)
EXTENDS Naturals, Sequences

\* responseWriter, with what it has passed on to the client: the status line
\* (0 before) and the parts of the body, by the function that wrote them.
Writer == [status : Nat, wroteHeader : BOOLEAN, headerSent : BOOLEAN,
           wire : Nat, body : Seq({"handler", "recovery"})]

\* Logging: &responseWriter{ResponseWriter: w, status: http.StatusOK}
NewWriter ==
    [status |-> 200, wroteHeader |-> FALSE, headerSent |-> FALSE,
     wire |-> 0, body |-> <<>>]

\* The first status counts.
WriteHeader(w, code) ==
    IF w.wroteHeader THEN w
    ELSE [w EXCEPT !.status = code, !.wroteHeader = TRUE]

\* The status goes to the client, once.
FlushHeader(w) ==
    IF w.headerSent THEN w
    ELSE LET s == IF w.wroteHeader THEN w.status ELSE 200
         IN  [w EXCEPT !.status = s, !.wroteHeader = TRUE, !.wire = s,
                       !.headerSent = TRUE]

Write(w, part) == [FlushHeader(w) EXCEPT !.body = Append(@, part)]

\* Seeded fault: the status is replaced although the client has it already.
ResetStatus_Always(w, code) ==
    [w EXCEPT !.status = code, !.wroteHeader = TRUE]

ResetStatus(w, code) ==
    IF w.headerSent THEN w
    ELSE [w EXCEPT !.status = code, !.wroteHeader = TRUE]

\* Seeded fault: Recovery does not reset the status the handler had set.
Recover_KeepsStatus(w) == Write(WriteHeader(w, 500), "recovery")

\* Recovery's deferred function.
Recover(w) == Write(WriteHeader(ResetStatus(w, 500), 500), "recovery")
=============================================================================
