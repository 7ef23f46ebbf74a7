---------------------------- MODULE HttpHandler -----------------------------
(***************************************************************************)
(* The handler generator/di/http.go generates for a route, with the parts  *)
(* of runtime/ it calls: content negotiation, authentication,              *)
(* authorization, binding, validation, the controller, the response        *)
(* writer, the error handler behind the @ExceptionHandler dispatcher, and  *)
(* Recover around all of it.  What the client sees is net/http's:          *)
(* the first WriteHeader decides the status, later ones are ignored, and   *)
(* every JSON document encoded is appended to the body.                    *)
(***************************************************************************)
EXTENDS Integers, Sequences

CONSTANTS
  Routes,      \* [consumes, produces, authorize, body, request, response, status]
  Requests,    \* [contentType, accept, principal]: who the credential names
  Dispatchers, \* [concrete, catchAll], each "none", "transform" or "response",
               \*   and [status]: @ResponseStatus of the response form
  AppStatuses  \* what HTTPStatus() of the application's errors can give,
               \*   0 for an error without one

\* Any number can be given as a status; an informational one, which net/http
\* does not take for the answer, is not modelled.
ASSUME HandlerAssumption ==
  /\ \A x \in Routes \cup Dispatchers : x.status \in Int \ (100..199)
  /\ AppStatuses \subseteq Int \ (100..199)
  /\ \A d \in Dispatchers : {d.concrete, d.catchAll} \subseteq {"none", "transform", "response"}

VARIABLES
  route, req, dispatcher,  \* the request and what it meets, fixed
  pc,        \* the handler's next call
  err,       \* the error being handled: [status, of]
  principal, \* what WithPrincipal has put on ctx
  recovering,\* the deferred Recover is running
  status,    \* the status sent, 0 before the first WriteHeader
  body,      \* the documents encoded: [doc, status]
  hist       \* what the properties compare with

fixed == <<route, req, dispatcher>>
vars == <<fixed, pc, err, principal, recovering, status, body, hist>>

Anonymous == [subject |-> "", roles |-> {}]
Invalid == [subject |-> "invalid", roles |-> {}]   \* refused by Authenticate

\* An error is told by the status it carries, 0 if it is no HTTPStatusError, and
\* by whose it is: the application's (a controller's, an advice method's, an
\* injected collaborator's) or the framework's own.
Own(s) == [status |-> s, of |-> "framework"]
AppErrors == [status : AppStatuses, of : {"application"}]
NoError == Own(0)

UnsupportedMediaType == Own(415)
NotAcceptable == Own(406)
Unauthenticated == Own(401)
Forbidden == Own(403)
BadRequest == Own(400)
InternalError == Own(500)
WriteError == Own(0)  \* of Encode: no HTTPStatusError

\* Any status but 0 is passed on, a success or a redirect included.
StatusOf(e) == IF e.status # 0 THEN e.status ELSE 500

Init ==
  /\ route \in Routes /\ req \in Requests /\ dispatcher \in Dispatchers
  /\ pc = "negotiate" /\ err = NoError
  /\ principal = Anonymous /\ recovering = FALSE
  /\ status = 0 /\ body = <<>>
  /\ hist = [read |-> FALSE, entered |-> FALSE, succeeded |-> FALSE,
             broken |-> FALSE]

Goto(l) == pc' = l
Handle(e) == err' = e /\ pc' = "handle"
Stay == UNCHANGED <<fixed, principal, recovering, status, body, hist>>

-----------------------------------------------------------------------------
(* Plausible bugs (the manifest's mutants).                                *)

\* The check is generated only for routes that bind nothing.
AuthorizeUnlessBound ==
  IF route.authorize # {} /\ ~route.request THEN "authenticate" ELSE "bind"

\* The response is written although the controller returned an error.
ControllerErrorIgnored ==
  /\ pc = "controller"
  /\ \E ok \in BOOLEAN : hist' = [hist EXCEPT !.entered = TRUE, !.succeeded = ok]
  /\ Goto("write")
  /\ UNCHANGED <<fixed, err, principal, recovering, status, body>>

\* An advice response is followed by the delegate's.
RespondAndDelegate ==
  /\ pc = "respond"
  /\ status' = IF status = 0 THEN dispatcher.status ELSE status
  /\ body' = Append(body, [doc |-> "advice", status |-> dispatcher.status])
  /\ Goto("delegate")
  /\ UNCHANGED <<fixed, err, principal, recovering, hist>>

-----------------------------------------------------------------------------
(* Pure parts of runtime/                                                  *)

\* negotiation.go: a media type or range is <<type, subtype>>.
mediaRangeMatches(rng, concrete) ==
  \/ rng = <<"*", "*">>
  \/ rng[2] = "*" /\ rng[1] = concrete[1]
  \/ rng = concrete

matchesMedia(list, ct) == \E item \in list : mediaRangeMatches(item, ct)

acceptsAny(accept, produces) ==
  accept = {} \/ \E rng \in accept, p \in produces : mediaRangeMatches(rng, p)

NegotiateContent(r) ==
  IF route.consumes # {} /\ r.contentType # <<>> /\ ~matchesMedia(route.consumes, r.contentType)
  THEN UnsupportedMediaType
  ELSE IF route.produces # {} /\ ~acceptsAny(r.accept, route.produces)
  THEN NotAcceptable ELSE NoError

\* authorization.go
satisfies(granted, required, all) ==
  \/ required = {}
  \/ IF all THEN required \subseteq granted ELSE required \cap granted # {}

Authorize(p, roles) ==
  IF roles = {} THEN NoError
  ELSE IF p.subject = "" THEN Unauthenticated
  ELSE IF ~satisfies(p.roles, roles, FALSE) THEN Forbidden ELSE NoError

-----------------------------------------------------------------------------
(* The handler's steps                                                     *)

AfterNegotiation == IF route.authorize # {} THEN "authenticate" ELSE "bind"

Negotiate ==
  /\ pc = "negotiate"
  /\ IF NegotiateContent(req) # NoError THEN Handle(NegotiateContent(req))
     ELSE Goto(AfterNegotiation) /\ UNCHANGED err
  /\ Stay

\* Authenticator, Binder and Validator are interfaces: an application's own may
\* fail with the framework's error or with one of the application's.
Rejects(e) == \E x \in AppErrors \cup {e} : Handle(x)

Authenticate ==
  /\ pc = "authenticate"
  /\ IF req.principal = Invalid THEN Rejects(Unauthenticated) /\ UNCHANGED principal
     ELSE principal' = req.principal /\ Goto("authorize") /\ UNCHANGED err
  /\ UNCHANGED <<fixed, recovering, status, body, hist>>

AuthorizeRoute ==
  /\ pc = "authorize"
  /\ LET e == Authorize(principal, route.authorize)
     IN IF e # NoError THEN Handle(e) ELSE Goto("bind") /\ UNCHANGED err
  /\ Stay

\* A route without a request type binds nothing; GET and DELETE have no body.
Bind ==
  /\ pc = "bind"
  /\ IF ~route.request THEN Goto("controller") /\ UNCHANGED err
     ELSE (Goto("validate") /\ UNCHANGED err) \/ Rejects(BadRequest)
  /\ hist' = [hist EXCEPT !.read = route.request /\ route.body]
  /\ UNCHANGED <<fixed, principal, recovering, status, body>>

Validate ==
  /\ pc = "validate"
  /\ (Goto("controller") /\ UNCHANGED err) \/ Rejects(BadRequest)
  /\ Stay

Controller ==
  /\ pc = "controller"
  /\ \/ /\ Goto("write") /\ UNCHANGED err
        /\ hist' = [hist EXCEPT !.entered = TRUE, !.succeeded = TRUE]
     \/ /\ \E e \in AppErrors : Handle(e)
        /\ hist' = [hist EXCEPT !.entered = TRUE]
  /\ UNCHANGED <<fixed, principal, recovering, status, body>>

-----------------------------------------------------------------------------
(* JSONResponseWriter.Write                                                *)

\* net/http panics for a first status outside of this range.
Refused(s) == status = 0 /\ s \notin 100..999

WriteHeader(s) == ~Refused(s) /\ status' = IF status = 0 THEN s ELSE status

\* A nil value, or status 204, sends only the status.  Otherwise Encode writes
\* the whole document or fails: the value cannot be marshalled, the client is
\* gone, or net/http allows no body for the status sent.
HasBody(s) == s # 204
Encoded(d, s) ==
  /\ HasBody(s) /\ status' \notin {204, 304}
  /\ body' = Append(body, [doc |-> d, status |-> s])

Written(d, s, canHaveValue) ==
  /\ WriteHeader(s)
  /\ (canHaveValue /\ Encoded(d, s)) \/ UNCHANGED body
  /\ Goto("done")
  /\ UNCHANGED <<err, hist>>

WriteFails(s) ==
  /\ HasBody(s) /\ WriteHeader(s)
  /\ hist' = [hist EXCEPT !.broken = TRUE]
  /\ err' = WriteError
  /\ UNCHANGED body

\* A route without a response type writes nil; a response can be nil, too.
WriteResponse ==
  /\ pc = "write"
  /\ \/ Written("response", route.status, route.response)
     \/ route.response /\ WriteFails(route.status) /\ Goto("handle")
  /\ UNCHANGED <<fixed, principal, recovering>>

-----------------------------------------------------------------------------
(* exceptionDispatcher.Handle and DefaultErrorHandler.Handle               *)

\* Concrete handlers are tried first, then the catch-all, then the delegate.
\* Whether the concrete one's errors.As matches depends on the types alone.
HandlerFor(matches) ==
  IF matches /\ dispatcher.concrete # "none" THEN dispatcher.concrete
  ELSE dispatcher.catchAll

Dispatch ==
  /\ pc = "handle"
  /\ \E matches \in BOOLEAN :
       Goto(CASE HandlerFor(matches) = "none" -> "delegate"
              [] HandlerFor(matches) = "transform" -> "transform"
              [] OTHER -> "respond")
  /\ UNCHANGED err
  /\ Stay

\* The transform form hands its own error to the delegate (a nil one gives 500,
\* like one without a status); so does the response form when it fails.
Transform ==
  /\ pc \in {"transform", "respond"}
  /\ \E e \in AppErrors : err' = e
  /\ Goto("delegate")
  /\ Stay

Respond ==
  /\ pc = "respond"
  /\ \/ Written("advice", dispatcher.status, TRUE)
     \/ WriteFails(dispatcher.status) /\ Goto("delegate")
  /\ UNCHANGED <<fixed, principal, recovering>>

\* toProblem, and a write whose error is ignored.
Delegate ==
  /\ pc = "delegate"
  /\ Written("problem", StatusOf(err), TRUE)
  /\ UNCHANGED <<fixed, principal, recovering>>

-----------------------------------------------------------------------------
(* Panics: in an injected collaborator, the controller, a marshaller, an   *)
(* advice method, or in net/http for a status it refuses.                  *)

Panics ==
  \/ /\ \/ pc \in {"authenticate", "authorize", "bind", "validate", "controller",
                  "transform", "respond"}
        \/ pc = "write" /\ Refused(route.status)
        \/ pc = "delegate" /\ Refused(StatusOf(err))
     /\ hist' = [hist EXCEPT !.entered = @ \/ pc = "controller"]
     /\ UNCHANGED <<fixed, principal, status, body>>
  \/ /\ \/ pc = "write" /\ route.response /\ HasBody(route.status) /\ WriteHeader(route.status)
        \/ pc = "respond" /\ HasBody(dispatcher.status) /\ WriteHeader(dispatcher.status)
     /\ hist' = [hist EXCEPT !.broken = TRUE]
     /\ UNCHANGED <<fixed, principal, body>>

\* The deferred Recover handles the first one with the context of the start ...
Recover ==
  /\ ~recovering
  /\ Panics
  /\ Handle(InternalError)
  /\ recovering' = TRUE

\* ... a second one, inside Recover, ends the connection.
Abort ==
  /\ recovering
  /\ Panics
  /\ Goto("aborted")
  /\ UNCHANGED <<err, recovering>>

Over == pc \in {"done", "aborted"} /\ UNCHANGED vars

Next ==
  \/ Negotiate \/ Authenticate \/ AuthorizeRoute \/ Bind \/ Validate \/ Controller
  \/ WriteResponse \/ Dispatch \/ Transform \/ Respond \/ Delegate
  \/ Recover \/ Abort \/ Over

Spec == Init /\ [][Next]_vars

-----------------------------------------------------------------------------
(* Properties                                                              *)

\* On a route with @Authorize neither the body is read nor the controller
\* entered unless the request came with a role that the route names.
SecuredFirst ==
  route.authorize # {} /\ (hist.read \/ hist.entered) =>
    req.principal.roles \cap route.authorize # {}

\* The client gets one document at most, and the status that document was
\* written with (a Problem names it) is the status of the response; only a
\* response that could not be encoded after its header was sent is the exception.
TruthfulStatus ==
  /\ Len(body) <= 1
  /\ \A i \in 1..Len(body) :
       body[i].status = status \/ hist.broken

Responds == "response" \in {dispatcher.concrete, dispatcher.catchAll}

\* Every request is answered: the response document is sent only when the
\* controller returned no error, and whatever failed instead, a panic included,
\* gives an error status, unless the application chose another one: on a
\* response-form handler, or as the status of the error that was rendered.  The
\* framework's own errors never do.  (A second panic, inside Recover, aborts the
\* connection instead.)
AnswerFits ==
  pc = "done" =>
    /\ status # 0
    /\ \A i \in 1..Len(body) : body[i].doc = "response" => hist.succeeded
    /\ ~hist.succeeded =>
         \/ status >= 400
         \/ Responds /\ status = dispatcher.status
         \/ err.of = "application" /\ status = err.status

=============================================================================
