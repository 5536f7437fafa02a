--------------------------- MODULE ExtendedSession ---------------------------
(***************************************************************************)
(* The session of the extended query protocol                              *)
(* (crates/fundb-protocol/src/extended.rs): prepared statements and the    *)
(* portals bound to them by name.  Names map to queries; the parameters a  *)
(* Bind carries are stored with the portal and used by no handler.         *)
(***************************************************************************)
EXTENDS Naturals, Sequences

CONSTANTS StatementNames, PortalNames, SessionQueries, MaxMessages

VARIABLES statements, portals,
          answer,     \* what the last message was answered with
          boundTo,    \* the query each portal's statement held when it was bound
          stale,      \* the portals whose statement was parsed again since
          messages    \* how many messages may still arrive

sessionVars == <<statements, portals, answer, boundTo, stale, messages>>

SessionInit ==
  /\ statements = <<>> /\ portals = <<>> /\ boundTo = <<>> /\ stale = {}
  /\ answer = <<>> /\ messages = MaxMessages

\* HashMap::insert: an entry of that name is replaced.
Stored(map, name, entry) ==
  [n \in DOMAIN map \cup {name} |-> IF n = name THEN entry ELSE map[n]]

Message == messages > 0 /\ messages' = messages - 1

\* handle_parse: a statement of that name is replaced, portals stay.
HandleParse(name, query) ==
  /\ Message
  /\ statements' = Stored(statements, name, query)
  /\ stale' = stale \cup {p \in DOMAIN portals : portals[p] = name}
  /\ answer' = <<"ParseComplete">>
  /\ UNCHANGED <<portals, boundTo>>

\* Mutant: Bind does not look the statement up.
HandleBindMutant(portal, name) ==
  /\ Message
  /\ portals' = Stored(portals, portal, name)
  /\ boundTo' = Stored(boundTo, portal, IF name \in DOMAIN statements THEN statements[name] ELSE "")
  /\ stale' = stale \ {portal}
  /\ answer' = <<"BindComplete">>
  /\ UNCHANGED statements

\* handle_bind: only to a statement that exists.
HandleBind(portal, name) ==
  /\ Message
  /\ IF name \in DOMAIN statements
     THEN /\ portals' = Stored(portals, portal, name)
          /\ boundTo' = Stored(boundTo, portal, statements[name])
          /\ stale' = stale \ {portal}
          /\ answer' = <<"BindComplete">>
     ELSE answer' = <<>> /\ UNCHANGED <<portals, boundTo, stale>>
  /\ UNCHANGED statements

HandleDescribe(kind, name) ==
  /\ Message
  /\ answer' = IF kind = "Statement" /\ name \in DOMAIN statements
               THEN <<"ParameterDescription", "NoData">> ELSE <<"NoData">>
  /\ UNCHANGED <<statements, portals, boundTo, stale>>

\* handle_execute: the query the portal's statement holds now.
HandleExecute(portal) ==
  /\ Message
  /\ answer' = IF portal \in DOMAIN portals /\ portals[portal] \in DOMAIN statements
               THEN <<"Run", statements[portals[portal]]>> ELSE <<"NoPortal">>
  /\ UNCHANGED <<statements, portals, boundTo, stale>>

SessionNext ==
  \/ \E n \in StatementNames, q \in SessionQueries : HandleParse(n, q)
  \/ \E p \in PortalNames, n \in StatementNames : HandleBind(p, n)
  \/ \E kind \in {"Statement", "Portal"}, n \in StatementNames : HandleDescribe(kind, n)
  \/ \E p \in PortalNames : HandleExecute(p)

-----------------------------------------------------------------------------

(* A portal that Bind acknowledged can be executed whatever messages follow, *)
(* and runs the query it was bound to unless its statement's name was parsed *)
(* again in between (handle_execute looks the statement up by name when the  *)
(* portal runs).                                                             *)
PortalsRun ==
  [][\A p \in DOMAIN boundTo :
       HandleExecute(p) => /\ answer'[1] = "Run"
                           /\ p \notin stale => answer'[2] = boundTo[p]]_sessionVars
=============================================================================
