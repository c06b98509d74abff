------------------------------- MODULE HttpWire -------------------------------
(***************************************************************************)
(* What klhayyent (the client) and serbewr (the server) say to each other: *)
(* one request at a time, and its reply.  A request names the route it     *)
(* asks for, or 0, which is none.  A body is a sequence of chunks: chunks  *)
(* of the application's, and JSON error envelopes, named by their code.    *)
(***************************************************************************)
EXTENDS Naturals, Sequences

VARIABLES
    sent,   \* the request on its way to the server, if there is one
    reply   \* the reply on its way to the client, if there is one

wire == <<sent, reply>>

Methods == {"GET", "HEAD", "POST", "OPTIONS"}
ContentTypes == {"none", "json", "other"}
Origins == {"base", "other"}

\* X-Request-ID: the caller's context or a request option set it, it is malformed
\* (too long, or a character that isValidRequestID forbids), or the server made it.
Ids == {"none", "malformed", "context", "option", "fresh"}
ValidRequestID(id) == id \in {"context", "option", "fresh"}

Requests(paths) ==
    [path : paths, method : Methods, id : Ids, contentType : ContentTypes,
     authorized : BOOLEAN, origin : Origins]

\* The codes of the error envelopes, and what ErrorCodeFromHTTPStatus makes of a
\* status, which is INTERNAL_SERVER_ERROR for one it does not know.
Codes == {"UNAUTHORIZED", "MISSING_CONTENT_TYPE", "UNSUPPORTED_CONTENT_TYPE",
          "VALIDATION_FAILED", "INTERNAL_SERVER_ERROR"}
CodeOf(status) ==
    CASE status = 400 -> "BAD_REQUEST"
      [] status = 401 -> "UNAUTHORIZED"
      [] status = 404 -> "NOT_FOUND"
      [] status = 405 -> "METHOD_NOT_ALLOWED"
      [] status = 422 -> "UNPROCESSABLE_ENTITY"
      [] OTHER -> "INTERNAL_SERVER_ERROR"
Success(status) == status \in 200..299

Chunks == {"app"} \cup Codes

\* Headers and body arrive together; a reply that is not whole broke off.
Reply(status, id, body, location, whole) ==
    [status |-> status, id |-> id, body |-> body, location |-> location,
     whole |-> whole]
=============================================================================
