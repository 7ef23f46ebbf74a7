------------------------- MODULE HttpHandlerProofs --------------------------
(***************************************************************************)
(* The generated handler for every route, request and exception advice:    *)
(* authorization comes first, the one document sent tells its status, and  *)
(* the answer fits what happened.                                          *)
(***************************************************************************)
EXTENDS HttpHandler, SequenceTheorems, TLAPS

\* What the application hands the handler never changes; the principal on the
\* context is the request's once it is not anonymous, and past the check of a
\* route with roles it has one of them.
SecureInv ==
  /\ principal \in {Anonymous, req.principal}
  /\ pc \in {"negotiate", "authenticate", "authorize"} => ~hist.read /\ ~hist.entered
  /\ route.authorize # {} =>
       (pc \in {"bind", "validate", "controller"} \/ hist.read \/ hist.entered
          => principal.roles \cap route.authorize # {})

\* The error in hand is the application's or one of the framework's own.
FrameworkErrors == [status : {0, 400, 401, 403, 406, 415, 500}, of : {"framework"}]

ErrInv ==
  err \in AppErrors \/ err \in FrameworkErrors

\* The statuses an answer to a failure can have: an error's, the advice's, or the
\* one the application's own error carries.
Fitting ==
  \/ status >= 400
  \/ Responds /\ status = dispatcher.status
  \/ pc = "done" /\ err.of = "application" /\ status = err.status

\* A header is sent before the handler is done only by a response that broke.
StatusInv ==
  /\ route \in Routes /\ dispatcher \in Dispatchers
  /\ status \in Int
  /\ pc = "write" => hist.succeeded
  /\ pc = "respond" => Responds
  /\ status # 0 /\ ~hist.succeeded => Fitting
  /\ pc = "done" => status # 0
  /\ pc \notin {"done", "aborted"} /\ status # 0 => hist.broken

\* Until then nothing is in the body.
Sound(doc) ==
  /\ doc.status = status \/ hist.broken
  /\ doc.doc = "response" => hist.succeeded

BodyInv ==
  /\ pc # "done" => body = <<>>
  /\ body = <<>> \/ \E doc : body = <<doc>> /\ Sound(doc)

Flags == [read : BOOLEAN, entered : BOOLEAN, succeeded : BOOLEAN, broken : BOOLEAN]

IInv == hist \in Flags /\ SecureInv /\ ErrInv /\ StatusInv /\ BodyInv

\* The framework's own errors.
LEMMA OwnErrors ==
  {NoError, UnsupportedMediaType, NotAcceptable, Unauthenticated, Forbidden, BadRequest,
   InternalError, WriteError} \subseteq FrameworkErrors
BY DEF NoError, UnsupportedMediaType, NotAcceptable, Unauthenticated, Forbidden, BadRequest,
       InternalError, WriteError, Own, FrameworkErrors

LEMMA Refusals == Unauthenticated # NoError /\ Forbidden # NoError
BY DEF Unauthenticated, Forbidden, NoError, Own

LEMMA InitIInv == Init => IInv
<1> SUFFICES ASSUME Init PROVE IInv
  OBVIOUS
<1>1. hist \in Flags /\ SecureInv
  BY DEF Init, Flags, SecureInv
<1>2. StatusInv
  BY HandlerAssumption DEF Init, StatusInv
<1>3. BodyInv
  BY DEF Init, BodyInv
<1>4. ErrInv
  <2>1. err \in FrameworkErrors
    BY OwnErrors DEF Init
  <2>2. QED
    BY <2>1 DEF ErrInv
<1>5. QED
  BY <1>1, <1>2, <1>3, <1>4 DEF IInv

\* A status below 400 comes from an application's error only.
LEMMA ErrorStatus ==
  ASSUME ErrInv
  PROVE  /\ StatusOf(err) \in Int
         /\ StatusOf(err) # 0
         /\ StatusOf(err) >= 400 \/ (err.of = "application" /\ StatusOf(err) = err.status)
<1>1. CASE err \in AppErrors
  <2>1. err.status \in AppStatuses /\ err.of = "application"
    BY <1>1 DEF AppErrors
  <2>2. err.status \in Int
    BY <2>1, HandlerAssumption
  <2>3. QED
    BY <2>1, <2>2 DEF StatusOf
<1>2. CASE err \in FrameworkErrors
  <2>1. err.status \in {0, 400, 401, 403, 406, 415, 500}
    BY <1>2 DEF FrameworkErrors
  <2>2. QED
    BY <2>1 DEF StatusOf
<1>3. QED
  BY <1>1, <1>2 DEF ErrInv

-----------------------------------------------------------------------------
\* Authorization: on the way to the binding a route with roles passes through
\* the check, which only a principal with one of them does.
LEMMA SecureStep == IInv /\ Next => SecureInv'
<1> SUFFICES ASSUME IInv, Next PROVE SecureInv'
  OBVIOUS
<1> USE DEF IInv, SecureInv, fixed, Stay, Goto, Handle, Rejects, Flags
<1>1. CASE Negotiate
  BY <1>1 DEF Negotiate, AfterNegotiation
<1>2. CASE Authenticate
  BY <1>2 DEF Authenticate
<1>3. CASE AuthorizeRoute
  BY <1>3, Refusals DEF AuthorizeRoute, Authorize, satisfies
<1>4. CASE Bind \/ Validate \/ Controller
  BY <1>4 DEF Bind, Validate, Controller
<1>5. CASE WriteResponse \/ Dispatch \/ Transform \/ Respond \/ Delegate
  BY <1>5 DEF WriteResponse, Dispatch, Transform, Respond, Delegate, Written, WriteFails
<1>6. CASE Recover \/ Abort
  BY <1>6 DEF Recover, Abort, Panics
<1>7. CASE Over
  BY <1>7 DEF Over, vars
<1>8. QED
  BY <1>1, <1>2, <1>3, <1>4, <1>5, <1>6, <1>7 DEF Next

LEMMA FlagsStep == IInv /\ Next => hist' \in Flags
<1> SUFFICES ASSUME IInv, Next PROVE hist' \in Flags
  OBVIOUS
<1> USE DEF IInv, Flags, Stay
<1>1. CASE Negotiate \/ Authenticate \/ AuthorizeRoute \/ Validate
  BY <1>1 DEF Negotiate, Authenticate, AuthorizeRoute, Validate
<1>2. CASE Bind
  <2>1. hist' = [hist EXCEPT !.read = (route.request /\ route.body)]
    BY <1>2 DEF Bind
  <2>2. (route.request /\ route.body) \in BOOLEAN
    OBVIOUS
  <2>3. QED
    BY <2>1, <2>2
<1>3. CASE Controller
  BY <1>3 DEF Controller
<1>4. CASE WriteResponse \/ Dispatch \/ Transform \/ Respond \/ Delegate
  BY <1>4 DEF WriteResponse, Dispatch, Transform, Respond, Delegate, Written, WriteFails
<1>5. CASE Recover \/ Abort
  <2>1. \/ hist' = [hist EXCEPT !.entered = (hist.entered \/ pc = "controller")]
        \/ hist' = [hist EXCEPT !.broken = TRUE]
    BY <1>5 DEF Recover, Abort, Panics
  <2>2. (hist.entered \/ pc = "controller") \in BOOLEAN
    OBVIOUS
  <2>3. QED
    BY <2>1, <2>2
<1>6. CASE Over
  BY <1>6 DEF Over, vars
<1>7. QED
  BY <1>1, <1>2, <1>3, <1>4, <1>5, <1>6 DEF Next

\* What an error in hand can be, past any step.
LEMMA ErrStep == IInv /\ Next => ErrInv'
<1> SUFFICES ASSUME IInv, Next PROVE ErrInv'
  OBVIOUS
<1>0. \/ err' = err
      \/ err' \in AppErrors
      \/ err' \in {NoError, UnsupportedMediaType, NotAcceptable, Unauthenticated, Forbidden, BadRequest,
                 InternalError, WriteError}
  <2> USE DEF Stay, Handle, Goto, Rejects
  <2>1. CASE Negotiate
    BY <2>1 DEF Negotiate, NegotiateContent
  <2>2. CASE AuthorizeRoute
    BY <2>2 DEF AuthorizeRoute, Authorize
  <2>3. CASE Authenticate \/ Bind \/ Validate \/ Controller
    BY <2>3 DEF Authenticate, Bind, Validate, Controller
  <2>4. CASE WriteResponse \/ Dispatch \/ Transform \/ Respond \/ Delegate
    BY <2>4 DEF WriteResponse, Dispatch, Transform, Respond, Delegate, Written, WriteFails
  <2>5. CASE Recover \/ Abort \/ Over
    BY <2>5 DEF Recover, Abort, Over, vars
  <2>6. QED
    BY <2>1, <2>2, <2>3, <2>4, <2>5 DEF Next
<1>1. QED
  <2>1. err' = err => ErrInv'
    BY DEF IInv, ErrInv, AppErrors, FrameworkErrors
  <2>2. err' \in AppErrors => ErrInv'
    BY DEF ErrInv, AppErrors, FrameworkErrors
  <2>3. err' \in FrameworkErrors => ErrInv'
    BY DEF ErrInv, FrameworkErrors
  <2>4. QED
    BY <1>0, <2>1, <2>2, <2>3, OwnErrors

LEMMA StatusStep == IInv /\ Next => StatusInv'
<1> SUFFICES ASSUME IInv, Next PROVE StatusInv'
  OBVIOUS
<1> USE HandlerAssumption DEF IInv, StatusInv, Fitting, Responds, fixed, Stay, Goto, Handle, Rejects
<1>1. CASE Negotiate \/ Authenticate \/ AuthorizeRoute
  BY <1>1 DEF Negotiate, AfterNegotiation, Authenticate, AuthorizeRoute
<1>2. CASE Bind \/ Validate
  BY <1>2 DEF Bind, Validate, Flags
<1>3. CASE Controller
  <2>1. /\ hist'.broken = hist.broken
        /\ hist'.succeeded = hist.succeeded \/ hist'.succeeded = TRUE
        /\ (pc' = "write" /\ hist'.succeeded = TRUE) \/ pc' = "handle"
        /\ pc = "controller" /\ UNCHANGED <<route, dispatcher, status>>
    BY <1>3 DEF Controller, Flags
  <2>2. QED
    BY <2>1
<1>4. CASE WriteResponse
  BY <1>4 DEF WriteResponse, Written, WriteFails, WriteHeader, Refused, Flags
<1>5. CASE Dispatch
  <2>1. /\ pc = "handle" /\ pc' \in {"delegate", "transform", "respond"}
        /\ pc' = "respond" => \E matches \in BOOLEAN : HandlerFor(matches) \notin {"none", "transform"}
        /\ UNCHANGED <<route, dispatcher, status, hist, err>>
    BY <1>5 DEF Dispatch
  <2>2. \A matches \in BOOLEAN : HandlerFor(matches) \in {dispatcher.concrete, dispatcher.catchAll}
    BY DEF HandlerFor
  <2>3. QED
    BY <2>1, <2>2
<1>6. CASE Transform
  BY <1>6 DEF Transform
<1>7. CASE Respond
  BY <1>7 DEF Respond, Written, WriteFails, WriteHeader, Refused, Flags
<1>8. CASE Delegate
  <2>1. /\ StatusOf(err) \in Int /\ StatusOf(err) # 0
        /\ StatusOf(err) >= 400 \/ (err.of = "application" /\ StatusOf(err) = err.status)
    BY ErrorStatus
  <2>2. /\ pc = "delegate" /\ pc' = "done"
        /\ status' = (IF status = 0 THEN StatusOf(err) ELSE status)
        /\ UNCHANGED <<route, dispatcher, err, hist>>
    BY <1>8 DEF Delegate, Written, WriteHeader
  <2>3. QED
    BY <2>1, <2>2
<1>9. CASE Recover \/ Abort
  BY <1>9 DEF Recover, Abort, Panics, WriteHeader, Refused, Flags
<1>10. CASE Over
  BY <1>10 DEF Over, vars
<1>11. QED
  BY <1>1, <1>2, <1>3, <1>4, <1>5, <1>6, <1>7, <1>8, <1>9, <1>10 DEF Next

\* The one write into an empty body.
LEMMA OneDocument ==
  ASSUME IInv, NEW doc, NEW s, NEW canHaveValue, pc \notin {"done", "aborted"},
         Written(doc, s, canHaveValue), doc = "response" => hist.succeeded
  PROVE  BodyInv'
<1>1. CASE body' = body
  BY <1>1 DEF IInv, BodyInv
<1>2. CASE body' # body
  <2> DEFINE document == [doc |-> doc, status |-> s]
  <2>1. /\ body' = Append(body, document) /\ body = <<>> /\ pc' = "done" /\ hist' = hist
        /\ status' = IF status = 0 THEN s ELSE status
    BY <1>2 DEF IInv, BodyInv, Written, Encoded, WriteHeader, Goto
  <2>2. (document.status = status' \/ hist'.broken) /\ (document.doc = "response" => hist'.succeeded)
    BY <2>1 DEF IInv, StatusInv
  <2> HIDE DEF document
  <2>3. body' = <<document>> /\ Sound(document)'
    BY <2>1, <2>2 DEF Sound
  <2>4. QED
    BY <2>1, <2>3 DEF BodyInv
<1>3. QED
  BY <1>1, <1>2

LEMMA NotWritten ==
  ASSUME BodyInv, pc # "done", body' = body
  PROVE  BodyInv'
BY DEF BodyInv

LEMMA BodyStep == IInv /\ Next => BodyInv'
<1> SUFFICES ASSUME IInv, Next PROVE BodyInv'
  OBVIOUS
<1>1. CASE \/ Negotiate \/ Authenticate \/ AuthorizeRoute \/ Bind \/ Validate \/ Controller
           \/ Dispatch \/ Transform \/ Recover \/ Abort
  BY <1>1, NotWritten
     DEF Negotiate, Authenticate, AuthorizeRoute, Bind, Validate, Controller, Dispatch, Transform,
         Recover, Abort, Panics, Stay, IInv
<1>2. CASE WriteResponse
  <2>1. pc = "write" /\ hist.succeeded
    BY <1>2 DEF WriteResponse, IInv, StatusInv
  <2>2. CASE Written("response", route.status, route.response)
    BY <2>1, <2>2, OneDocument
  <2>3. CASE WriteFails(route.status)
    BY <2>1, <2>3, NotWritten DEF WriteFails, IInv
  <2>4. QED
    BY <1>2, <2>2, <2>3 DEF WriteResponse
<1>3. CASE Respond
  <2>1. pc = "respond"
    BY <1>3 DEF Respond
  <2>2. CASE Written("advice", dispatcher.status, TRUE)
    BY <2>1, <2>2, OneDocument
  <2>3. CASE WriteFails(dispatcher.status)
    BY <2>1, <2>3, NotWritten DEF WriteFails, IInv
  <2>4. QED
    BY <1>3, <2>2, <2>3 DEF Respond
<1>4. CASE Delegate
  BY <1>4, OneDocument DEF Delegate
<1>5. CASE Over
  BY <1>5 DEF Over, vars, IInv, BodyInv, Sound
<1>6. QED
  BY <1>1, <1>2, <1>3, <1>4, <1>5 DEF Next

-----------------------------------------------------------------------------
LEMMA Invariance == Spec => []IInv
<1>1. IInv /\ [Next]_vars => IInv'
  <2>1. IInv /\ UNCHANGED vars => IInv'
    <3> SUFFICES ASSUME IInv, UNCHANGED vars PROVE IInv'
      OBVIOUS
    <3>1. ErrInv'
      BY DEF IInv, ErrInv, AppErrors, FrameworkErrors, vars
    <3>2. (hist \in Flags /\ SecureInv /\ BodyInv)'
      BY DEF IInv, vars, fixed, Flags, SecureInv, BodyInv, Sound
    <3>3. StatusInv'
      BY DEF IInv, vars, fixed, StatusInv, Fitting, Responds
    <3>4. QED
      BY <3>1, <3>2, <3>3 DEF IInv
  <2>2. QED
    BY <2>1, SecureStep, FlagsStep, ErrStep, StatusStep, BodyStep DEF IInv
<1>2. QED
  BY <1>1, InitIInv, PTL DEF Spec

\* SecuredFirst: neither the body is read nor the controller entered before the
\* route's roles have been checked.
THEOREM AuthorizationComesFirst == Spec => []SecuredFirst
<1>1. IInv => SecuredFirst
  <2>1. \A roles : Anonymous.roles \cap roles = {}
    BY DEF Anonymous
  <2>2. QED
    BY <2>1 DEF IInv, SecureInv, SecuredFirst
<1>2. QED
  BY <1>1, Invariance, PTL

\* TruthfulStatus: one document at most, with the status of the response.
THEOREM StatusIsTruthful == Spec => []TruthfulStatus
<1>1. IInv => TruthfulStatus
  <2> SUFFICES ASSUME IInv PROVE TruthfulStatus
    OBVIOUS
  <2>1. CASE body = <<>>
    BY <2>1 DEF TruthfulStatus
  <2>2. ASSUME NEW doc, body = <<doc>>, Sound(doc)
        PROVE  TruthfulStatus
    <3>1. Len(body) = 1 /\ body[1] = doc
      BY <2>2
    <3>2. QED
      BY <2>2, <3>1 DEF TruthfulStatus, Sound
  <2>3. QED
    BY <2>1, <2>2 DEF IInv, BodyInv
<1>2. QED
  BY <1>1, Invariance, PTL

\* AnswerFits: every finished request has a status, the controller's result
\* only if there is one, and otherwise an error status or one the application
\* chose: on its advice, or on the error that was rendered.
THEOREM AnswersFit == Spec => []AnswerFits
<1>1. IInv => AnswerFits
  <2> SUFFICES ASSUME IInv, pc = "done" PROVE AnswerFits
    BY DEF AnswerFits
  <2>1. \A i \in 1..Len(body) : body[i].doc = "response" => hist.succeeded
    <3>1. CASE body = <<>>
      BY <3>1
    <3>2. ASSUME NEW doc, body = <<doc>>, Sound(doc)
          PROVE  \A i \in 1..Len(body) : body[i].doc = "response" => hist.succeeded
      <4>1. Len(body) = 1 /\ body[1] = doc
        BY <3>2
      <4>2. QED
        BY <3>2, <4>1 DEF Sound
    <3>3. QED
      BY <3>1, <3>2 DEF IInv, BodyInv
  <2>2. QED
    BY <2>1 DEF IInv, StatusInv, Fitting, AnswerFits
<1>2. QED
  BY <1>1, Invariance, PTL
=============================================================================
