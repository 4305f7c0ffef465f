----------------------------- MODULE AuthTokens -----------------------------
(***************************************************************************)
(* Operators, their groups and the bearer tokens issued to them (auth.py). *)
(* Three collections, each changed in transactions of its own; what spans  *)
(* two of them, or reads a token and writes it back later, is several      *)
(* steps of one worker.                                                    *)
(***************************************************************************)
EXTENDS FiniteSets

CONSTANTS
    Nobody,         \* stands for no operator, group, token or request
    OperatorId, GroupId, TokenId,
    AuthWorker,     \* backend processes
    OperatorGrant,  \* what operators are given: [capabilities, groups]
    GroupGrant,     \* capabilities that groups are given
    TokenGrant,     \* capabilities that tokens are asked for
    GrantsAll       \* the capabilities admin and all

TokenRecord ==
    [operator : OperatorId, capabilities : TokenGrant, status : {"active", "expired", "revoked"},
     due : {"never", "later", "past"}, from : TokenId \cup {Nobody}]

\* A token about to be stored, and the copy of one that was read.
AuthRequest ==
    [does : {"issue"}, token : TokenRecord]
        \cup [does : {"read"}, id : TokenId, token : TokenRecord]

ASSUME NobodyIsApart == Nobody \notin TokenId \cup TokenRecord \cup AuthRequest

VARIABLES
    operators, operatorGroups, authTokens,
    authOp          \* authOp[w]: the request that worker w is handling

authVars == <<operators, operatorGroups, authTokens, authOp>>

Tokens == {t \in TokenId : authTokens[t] # Nobody}

Expired(token) == token.status = "active" /\ token.due = "past"
ExpiredCopy(token) == IF Expired(token) THEN [token EXCEPT !.status = "expired"] ELSE token

Effective(operator) ==
    operator.capabilities \cup
        UNION {operatorGroups[g].capabilities :
                  g \in {h \in operator.groups : operatorGroups[h] # Nobody
                                                   /\ operatorGroups[h].status = "active"}}

Allows(operator, capabilities) ==
    Effective(operator) \cap GrantsAll # {} \/ capabilities \subseteq Effective(operator)

OperatorActive(o) == operators[o] # Nobody /\ operators[o].status = "active"

\* A token issued here is worth nothing without an active operator.
TokenUsable(token) ==
    /\ OperatorActive(token.operator)
    /\ \/ Allows(operators[token.operator], token.capabilities)
       \/ token.capabilities \cap Effective(operators[token.operator]) # {}

NewToken(o, capabilities, due, from) ==
    [operator |-> o, capabilities |-> capabilities, status |-> "active", due |-> due, from |-> from]

----------------------------------------------------------------------------
GroupsExist(groups) == \A g \in groups : operatorGroups[g] # Nobody

CreateOperator(o, grant) ==
    /\ operators[o] = Nobody
    /\ GroupsExist(grant.groups)
    /\ operators' = [operators EXCEPT ![o] =
            [status |-> "active", capabilities |-> grant.capabilities, groups |-> grant.groups]]
    /\ UNCHANGED <<operatorGroups, authTokens, authOp>>

UpdateOperator(o, grant, status) ==
    /\ operators[o] # Nobody
    /\ GroupsExist(grant.groups)
    /\ operators' = [operators EXCEPT ![o] =
            [status |-> status, capabilities |-> grant.capabilities, groups |-> grant.groups]]
    /\ UNCHANGED <<operatorGroups, authTokens, authOp>>

CreateOperatorGroup(g, capabilities) ==
    /\ operatorGroups[g] = Nobody
    /\ operatorGroups' = [operatorGroups EXCEPT ![g] =
            [status |-> "active", capabilities |-> capabilities]]
    /\ UNCHANGED <<operators, authTokens, authOp>>

UpdateOperatorGroup(g, capabilities, status) ==
    /\ operatorGroups[g] # Nobody
    /\ operatorGroups' = [operatorGroups EXCEPT ![g] =
            [status |-> status, capabilities |-> capabilities]]
    /\ UNCHANGED <<operators, authTokens, authOp>>

\* The operator is looked at first; the token is stored whatever has become
\* of its operator since.
AskForToken(w, o, capabilities, due) ==
    /\ authOp[w] = Nobody
    /\ OperatorActive(o) /\ Allows(operators[o], capabilities)
    /\ authOp' = [authOp EXCEPT ![w] = [does |-> "issue", token |-> NewToken(o, capabilities, due, Nobody)]]
    /\ UNCHANGED <<operators, operatorGroups, authTokens>>

IssueToken(w, t) ==
    /\ authOp[w] # Nobody /\ authOp[w].does = "issue"
    /\ t \notin Tokens
    /\ authTokens' = [authTokens EXCEPT ![t] = authOp[w].token]
    /\ authOp' = [authOp EXCEPT ![w] = Nobody]
    /\ UNCHANGED <<operators, operatorGroups>>

\* One transaction retires the token and stores its successor, which may be
\* given another deadline.
RotateToken(t, next, capabilities, due) ==
    LET token == authTokens[t] IN
    /\ t \in Tokens /\ next \notin Tokens
    /\ ExpiredCopy(token).status = "active"
    /\ OperatorActive(token.operator) /\ Allows(operators[token.operator], capabilities)
    /\ authTokens' = [authTokens EXCEPT
            ![t].status = "revoked",
            ![next] = NewToken(token.operator, capabilities, due, t)]
    /\ UNCHANGED <<operators, operatorGroups, authOp>>

RevokeToken(t) ==
    /\ t \in Tokens
    /\ authTokens' = [authTokens EXCEPT ![t].status = "revoked"]
    /\ UNCHANGED <<operators, operatorGroups, authOp>>

\* Also a revoked token becomes an expired one.
ExpireToken(t) ==
    /\ t \in Tokens
    /\ authTokens' = [authTokens EXCEPT ![t].status = "expired", ![t].due = "past"]
    /\ UNCHANGED <<operators, operatorGroups, authOp>>

TimePasses(t) ==
    /\ t \in Tokens /\ authTokens[t].due = "later"
    /\ authTokens' = [authTokens EXCEPT ![t].due = "past"]
    /\ UNCHANGED <<operators, operatorGroups, authOp>>

\* Listing the tokens, for the api or to find the one that was presented,
\* looks at every record of one read: here, at any one of them.
ReadToken(w, t) ==
    /\ authOp[w] = Nobody
    /\ t \in Tokens
    /\ authOp' = [authOp EXCEPT ![w] = [does |-> "read", id |-> t, token |-> authTokens[t]]]
    /\ UNCHANGED <<operators, operatorGroups, authTokens>>

\* Past its expiry, the copy is stored as expired over whatever the record has
\* become since.
WriteBackExpired(w) ==
    LET o == authOp[w] IN
    /\ o # Nobody /\ o.does = "read"
    /\ Expired(o.token)
    /\ authTokens' = [authTokens EXCEPT ![o.id] = ExpiredCopy(o.token)]
    /\ authOp' = [authOp EXCEPT ![w] = Nobody]
    /\ UNCHANGED <<operators, operatorGroups>>

\* Variant: the time of use is written into the copy.
UsedWrittenAsRead(current, copy) == copy
\* The time of use is written into the current record.
UsedWritten(current, copy) == current

\* The presented token is good for its capabilities, cut down to those of its
\* operator.
UseToken(w) ==
    LET o == authOp[w] IN
    /\ o # Nobody /\ o.does = "read"
    /\ ExpiredCopy(o.token).status = "active"
    /\ TokenUsable(o.token)
    /\ authTokens' = [authTokens EXCEPT ![o.id] = UsedWritten(@, o.token)]
    /\ authOp' = [authOp EXCEPT ![w] = Nobody]
    /\ UNCHANGED <<operators, operatorGroups>>

\* Nothing is written for a token that was not presented or is not usable.
LeaveToken(w) ==
    /\ authOp[w] # Nobody /\ authOp[w].does = "read"
    /\ ~Expired(authOp[w].token)
    /\ authOp' = [authOp EXCEPT ![w] = Nobody]
    /\ UNCHANGED <<operators, operatorGroups, authTokens>>

Spent(token) == token # Nobody /\ ExpiredCopy(token).status # "active"

Heirs(t) == {u \in Tokens : authTokens[u].from = t}

AuthInit ==
    /\ operators = [o \in OperatorId |-> Nobody]
    /\ operatorGroups = [g \in GroupId |-> Nobody]
    /\ authTokens = [t \in TokenId |-> Nobody]
    /\ authOp = [w \in AuthWorker |-> Nobody]

AuthNext ==
    \/ \E o \in OperatorId, grant \in OperatorGrant :
          \/ CreateOperator(o, grant)
          \/ \E status \in {"active", "inactive"} : UpdateOperator(o, grant, status)
    \/ \E g \in GroupId, capabilities \in GroupGrant :
          \/ CreateOperatorGroup(g, capabilities)
          \/ \E status \in {"active", "inactive"} : UpdateOperatorGroup(g, capabilities, status)
    \/ \E w \in AuthWorker, o \in OperatorId, capabilities \in TokenGrant, due \in {"never", "later"} :
          AskForToken(w, o, capabilities, due)
    \/ \E t, next \in TokenId, capabilities \in TokenGrant, due \in {"never", "later"} :
          RotateToken(t, next, capabilities, due)
    \/ \E t \in TokenId : RevokeToken(t) \/ ExpireToken(t) \/ TimePasses(t)
    \/ \E w \in AuthWorker, t \in TokenId : IssueToken(w, t) \/ ReadToken(w, t)
    \/ \E w \in AuthWorker : WriteBackExpired(w) \/ UseToken(w) \/ LeaveToken(w)

AuthSpec == AuthInit /\ [][AuthNext]_authVars

(* A token that was revoked, rotated or expired, or whose time is up, never
   becomes good again and gains no further successors, although a reader that
   saw it before writes back its own copy of the record (auth.py:915) and a
   request that found it active records its use (auth.py:870). *)
RevocationIsFinal ==
    [][\A t \in TokenId :
          Spent(authTokens[t]) => Spent(authTokens'[t]) /\ Heirs(t)' \subseteq Heirs(t)]_authVars
=============================================================================
