--------------------------- MODULE MCHttpHandler ----------------------------
(* Routes with and without constraints, roles, a body and a response;      *)
(* statuses net/http takes and ones it refuses.                            *)
EXTENDS HttpHandler

Json == <<"application", "json">>
Xml == <<"text", "xml">>
Any == <<"*", "*">>
App == <<"application", "*">>

MCRoutes ==
  {r \in [consumes : {{}, {App}}, produces : {{}, {Json}}, authorize : {{}, {"admin", "user"}},
          body : BOOLEAN, request : BOOLEAN, response : BOOLEAN, status : {200, 204, 42}] :
     (r.body => r.request) /\ (r.status = 204 => r.response)
     /\ (r.status = 42 => ~r.body /\ r.consumes = {} /\ r.produces = {})}

Named(roles) == [subject |-> "u", roles |-> roles]

MCRequests ==
  [contentType : {<<>>, Json, Xml}, accept : {{}, {Xml}, {Xml, App}, {Any}},
   principal : {Invalid, Anonymous, Named({"user"}), Named({"guest"})}]

MCDispatchers ==
  {d \in [concrete : {"none", "transform", "response"}, catchAll : {"none", "transform", "response"},
          status : {422, 0}] :
     d.status = 0 => d.concrete = "response" /\ d.catchAll = "response"}

\* None, a success without a body, a redirect, an error, and one net/http refuses.
MCAppStatuses == {0, 204, 302, 409, 42}
=============================================================================
