------------------------------ MODULE MCFront ------------------------------
(***************************************************************************)
(* Two clients and two workers with a credential each, a legacy token, one *)
(* key, a content that fits, one that is too large, and a task whose lease *)
(* moves between the workers.                                              *)
(***************************************************************************)
EXTENDS RequestFront

CONSTANTS t1, w1, w2, model, dataset

P(name, token, role) == [name |-> name, token |-> token, roles |-> {role}]

MCPrincipals ==
  <<P("ann", "a", "submitter"), P("eve", "e", "executor"), P("ed", "d", "executor"),
    P("vic", "v", "viewer")>>

Base == [kind |-> "submit", token |-> "a", api |-> "same", body |-> "small", key |-> NoKey,
         content |-> model, task |-> t1, file |-> 1]

Uploads ==
  {[Base EXCEPT !.kind = "input", !.content = c] : c \in {model, dataset}}
    \cup {[Base EXCEPT !.kind = "output", !.token = t] : t \in {"e", "d"}}
    \cup {[Base EXCEPT !.kind = "output", !.token = "l", !.body = "large", !.content = dataset]}

MCRequests ==
  {Base, [Base EXCEPT !.key = "k"], [Base EXCEPT !.key = "k", !.token = "l"],
   [Base EXCEPT !.kind = "download", !.token = "v"],
   [Base EXCEPT !.token = "v"], [Base EXCEPT !.token = "x"],
   [Base EXCEPT !.api = "other"], [Base EXCEPT !.body = "large"]}
    \cup Uploads

MCPrincipalOf == w1 :> "eve" @@ w2 :> "ed"
MCSizeOf == model :> 2 @@ dataset :> 3
=============================================================================
