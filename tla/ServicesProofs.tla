--------------------------- MODULE ServicesProofs ---------------------------
(***************************************************************************)
(* The services, for any number of workers, tokens, rules, plugins and     *)
(* branches.                                                               *)
(*                                                                         *)
(* Tokens: revocation is final.  Beside the types it needs that the copy a *)
(* worker has read, and may write back, belongs to a token that is there   *)
(* and descends from the same one: then neither an old copy nor a late     *)
(* successor can bring it back.                                            *)
(*                                                                         *)
(* Hook rules: the managed ones are never loosened.  What is stored comes  *)
(* from an operator or a plugin and never says it is managed, so the       *)
(* managed rules sort before it.                                           *)
(*                                                                         *)
(* Git: a command acts on what was reviewed.  Recipes: what a plugin's     *)
(* recipe runs is what its file says when it is compared.                  *)
(***************************************************************************)
EXTENDS Services, WellFoundedInduction, TLAPS

----------------------------------------------------------------------------
(* Tokens. *)

AuthTyped ==
    /\ authTokens \in [TokenId -> TokenRecord \cup {Nobody}]
    /\ authOp \in [AuthWorker -> AuthRequest \cup {Nobody}]

\* Only a token that has been stored is read, and its descent never changes;
\* what is about to be stored descends from nobody.
CopiesBelong ==
    \A w \in AuthWorker :
        authOp[w] # Nobody =>
            /\ authOp[w].does = "read" =>
                  /\ authTokens[authOp[w].id] # Nobody
                  /\ authOp[w].token.from = authTokens[authOp[w].id].from
            /\ authOp[w].does = "issue" => authOp[w].token.from = Nobody

AuthInv == AuthTyped /\ CopiesBelong

\* What every step keeps: descent, and the fate of spent tokens.
Descends ==
    \A t \in TokenId :
        authTokens[t] # Nobody =>
            authTokens'[t] # Nobody /\ authTokens'[t].from = authTokens[t].from

StaysSpent ==
    \A t \in TokenId :
        Spent(authTokens[t]) => Spent(authTokens'[t]) /\ Heirs(t)' \subseteq Heirs(t)

----------------------------------------------------------------------------
\* Replacing a record by one of the same descent that is spent if it was.
LEMMA Replacing ==
    ASSUME AuthTyped,
           NEW t \in TokenId, authTokens[t] # Nobody,
           NEW record \in TokenRecord,
           record.from = authTokens[t].from,
           Spent(authTokens[t]) => Spent(record),
           authTokens' = [authTokens EXCEPT ![t] = record]
    PROVE  /\ authTokens' \in [TokenId -> TokenRecord \cup {Nobody}]
           /\ Descends /\ StaysSpent
<1>1. record # Nobody
  BY NobodyIsApart
<1>2. /\ authTokens' \in [TokenId -> TokenRecord \cup {Nobody}]
      /\ \A u \in TokenId : authTokens'[u] = IF u = t THEN record ELSE authTokens[u]
  BY DEF AuthTyped
<1>3. Descends
  BY <1>1, <1>2 DEF Descends
<1>4. ASSUME NEW u \in TokenId, Spent(authTokens[u])
      PROVE  Spent(authTokens'[u])
  <2>1. CASE u = t
    BY <1>2, <1>4, <2>1
  <2>2. CASE u # t
    BY <1>2, <1>4, <2>2
  <2> QED
    BY <2>1, <2>2
<1>5. ASSUME NEW u \in TokenId
      PROVE  Heirs(u)' \subseteq Heirs(u)
  BY <1>1, <1>2 DEF Heirs, Tokens
<1> QED
  BY <1>2, <1>3, <1>4, <1>5 DEF StaysSpent

\* A new record may descend from a token that is not spent, or from nobody.
LEMMA Adding ==
    ASSUME AuthTyped,
           NEW next \in TokenId, authTokens[next] = Nobody,
           NEW record \in TokenRecord,
           \A t \in TokenId : record.from = t => ~Spent(authTokens[t]),
           authTokens' = [authTokens EXCEPT ![next] = record]
    PROVE  /\ authTokens' \in [TokenId -> TokenRecord \cup {Nobody}]
           /\ Descends /\ StaysSpent
<1>1. record # Nobody
  BY NobodyIsApart
<1>2. /\ authTokens' \in [TokenId -> TokenRecord \cup {Nobody}]
      /\ \A u \in TokenId : authTokens'[u] = IF u = next THEN record ELSE authTokens[u]
  BY DEF AuthTyped
<1>3. Descends
  BY <1>2 DEF Descends
<1>4. ASSUME NEW u \in TokenId, Spent(authTokens[u])
      PROVE  Spent(authTokens'[u])
  <2>1. u # next
    BY <1>4 DEF Spent
  <2> QED
    BY <1>2, <1>4, <2>1
<1>5. ASSUME NEW u \in TokenId, Spent(authTokens[u])
      PROVE  Heirs(u)' \subseteq Heirs(u)
  BY <1>1, <1>2, <1>5 DEF Heirs, Tokens
<1> QED
  BY <1>2, <1>3, <1>4, <1>5 DEF StaysSpent

\* Rotation: one record is retired and another, descending from it, is added.
LEMMA Rotating ==
    ASSUME AuthTyped,
           NEW t \in TokenId, authTokens[t] # Nobody, ~Spent(authTokens[t]),
           NEW next \in TokenId, authTokens[next] = Nobody,
           NEW record \in TokenRecord, record.from = t,
           authTokens' = [authTokens EXCEPT ![t].status = "revoked", ![next] = record]
    PROVE  /\ authTokens' \in [TokenId -> TokenRecord \cup {Nobody}]
           /\ Descends /\ StaysSpent
<1> DEFINE retired == [authTokens[t] EXCEPT !.status = "revoked"]
<1>1. authTokens[t] \in TokenRecord /\ t # next
  BY DEF AuthTyped
<1>2. retired \in TokenRecord /\ retired.from = authTokens[t].from
  BY <1>1 DEF TokenRecord
<1>3. record # Nobody /\ retired # Nobody
  BY <1>2, NobodyIsApart
<1>4. /\ authTokens' \in [TokenId -> TokenRecord \cup {Nobody}]
      /\ \A u \in TokenId :
            authTokens'[u] = IF u = next THEN record ELSE IF u = t THEN retired ELSE authTokens[u]
  BY <1>1, <1>2 DEF AuthTyped
<1> HIDE DEF retired
<1>5. Descends
  BY <1>2, <1>3, <1>4 DEF Descends
<1>6. ASSUME NEW u \in TokenId, Spent(authTokens[u])
      PROVE  u # t /\ u # next /\ authTokens'[u] = authTokens[u]
  <2>1. u # t
    BY <1>6
  <2>2. u # next
    BY <1>6 DEF Spent
  <2> QED
    BY <1>4, <2>1, <2>2
<1>7. ASSUME NEW u \in TokenId, Spent(authTokens[u])
      PROVE  Heirs(u)' \subseteq Heirs(u)
  BY <1>2, <1>3, <1>4, <1>6, <1>7 DEF Heirs, Tokens
<1> QED
  BY <1>4, <1>5, <1>6, <1>7 DEF StaysSpent

----------------------------------------------------------------------------
\* The copies survive every change of the tokens that keeps descent.
LEMMA CopiesKept ==
    ASSUME AuthInv,
           authTokens' \in [TokenId -> TokenRecord \cup {Nobody}],
           Descends,
           UNCHANGED authOp
    PROVE  AuthInv'
<1>1. AuthTyped'
  BY DEF AuthInv, AuthTyped
<1>2. ASSUME NEW w \in AuthWorker, authOp[w] # Nobody, authOp[w].does = "read"
      PROVE  /\ authTokens'[authOp[w].id] # Nobody
             /\ authOp[w].token.from = authTokens'[authOp[w].id].from
  <2>1. authOp[w].id \in TokenId
    BY <1>2 DEF AuthInv, AuthTyped, AuthRequest
  <2> QED
    BY <1>2, <2>1 DEF AuthInv, CopiesBelong, Descends
<1>3. CopiesBelong'
  BY <1>2 DEF AuthInv, CopiesBelong
<1> QED
  BY <1>1, <1>3 DEF AuthInv

\* So do those of the other workers when one has finished.
LEMMA CopyDone ==
    ASSUME AuthInv,
           authTokens' \in [TokenId -> TokenRecord \cup {Nobody}],
           Descends,
           NEW done \in AuthWorker,
           authOp' = [authOp EXCEPT ![done] = Nobody]
    PROVE  AuthInv'
<1>1. \A w \in AuthWorker : authOp'[w] = IF w = done THEN Nobody ELSE authOp[w]
  BY DEF AuthInv, AuthTyped
<1>2. AuthTyped'
  BY DEF AuthInv, AuthTyped
<1>3. ASSUME NEW w \in AuthWorker, authOp'[w] # Nobody, authOp'[w].does = "read"
      PROVE  /\ authTokens'[authOp'[w].id] # Nobody
             /\ authOp'[w].token.from = authTokens'[authOp'[w].id].from
  <2>1. authOp'[w] = authOp[w] /\ authOp[w] # Nobody
    BY <1>1, <1>3
  <2>2. authOp[w].id \in TokenId
    BY <1>3, <2>1 DEF AuthInv, AuthTyped, AuthRequest
  <2> QED
    BY <1>3, <2>1, <2>2 DEF AuthInv, CopiesBelong, Descends
<1>4. ASSUME NEW w \in AuthWorker, authOp'[w] # Nobody, authOp'[w].does = "issue"
      PROVE  authOp'[w].token.from = Nobody
  BY <1>1, <1>4 DEF AuthInv, CopiesBelong
<1>5. CopiesBelong'
  BY <1>3, <1>4 DEF CopiesBelong
<1> QED
  BY <1>2, <1>5 DEF AuthInv

\* A worker begins: the tokens are as they were.
LEMMA CopyTaken ==
    ASSUME AuthInv,
           UNCHANGED authTokens,
           NEW w \in AuthWorker,
           NEW request \in AuthRequest,
           request.does = "read" =>
              /\ authTokens[request.id] # Nobody
              /\ request.token.from = authTokens[request.id].from,
           request.does = "issue" => request.token.from = Nobody,
           authOp' = [authOp EXCEPT ![w] = request]
    PROVE  AuthInv'
<1>1. \A v \in AuthWorker : authOp'[v] = IF v = w THEN request ELSE authOp[v]
  BY DEF AuthInv, AuthTyped
<1>2. AuthTyped'
  BY DEF AuthInv, AuthTyped
<1>3. CopiesBelong'
  BY <1>1 DEF AuthInv, CopiesBelong
<1> QED
  BY <1>2, <1>3 DEF AuthInv

\* A step that leaves the tokens alone.
LEMMA TokensLeft ==
    ASSUME AuthTyped, UNCHANGED authTokens
    PROVE  /\ authTokens' \in [TokenId -> TokenRecord \cup {Nobody}]
           /\ Descends /\ StaysSpent
  BY DEF AuthTyped, Descends, StaysSpent, Spent, Heirs, Tokens

----------------------------------------------------------------------------
LEMMA StepAskForToken ==
    ASSUME AuthInv, NEW w \in AuthWorker, NEW o \in OperatorId,
           NEW capabilities \in TokenGrant, NEW due \in {"never", "later"},
           AskForToken(w, o, capabilities, due)
    PROVE  AuthInv' /\ StaysSpent
<1> DEFINE request == [does |-> "issue", token |-> NewToken(o, capabilities, due, Nobody)]
<1>1. request \in AuthRequest /\ request.does = "issue" /\ request.token.from = Nobody
  BY DEF AuthRequest, TokenRecord, NewToken
<1>2. UNCHANGED authTokens /\ authOp' = [authOp EXCEPT ![w] = request]
  BY DEF AskForToken
<1> HIDE DEF request
<1>3. AuthInv'
  BY <1>1, <1>2, CopyTaken
<1> QED
  BY <1>2, <1>3, TokensLeft DEF AuthInv

LEMMA StepIssueToken ==
    ASSUME AuthInv, NEW w \in AuthWorker, NEW t \in TokenId, IssueToken(w, t)
    PROVE  AuthInv' /\ StaysSpent
<1> DEFINE record == authOp[w].token
<1>1. authTokens[t] = Nobody
  BY DEF IssueToken, Tokens
<1>2. record \in TokenRecord /\ record.from = Nobody
  BY DEF IssueToken, AuthInv, AuthTyped, AuthRequest, CopiesBelong
<1>3. \A u \in TokenId : record.from # u
  BY <1>2, NobodyIsApart
<1>4. authTokens' = [authTokens EXCEPT ![t] = record] /\ authOp' = [authOp EXCEPT ![w] = Nobody]
  BY DEF IssueToken
<1> HIDE DEF record
<1>5. /\ authTokens' \in [TokenId -> TokenRecord \cup {Nobody}]
      /\ Descends /\ StaysSpent
  BY <1>1, <1>2, <1>3, <1>4, Adding DEF AuthInv
<1> QED
  BY <1>4, <1>5, CopyDone

LEMMA StepRotateToken ==
    ASSUME AuthInv, NEW t \in TokenId, NEW next \in TokenId,
           NEW capabilities \in TokenGrant, NEW due \in {"never", "later"},
           RotateToken(t, next, capabilities, due)
    PROVE  AuthInv' /\ StaysSpent
<1> DEFINE record == NewToken(authTokens[t].operator, capabilities, due, t)
<1>1. authTokens[t] # Nobody /\ authTokens[next] = Nobody /\ ~Spent(authTokens[t])
  BY DEF RotateToken, Tokens, Spent
<1>2. authTokens[t] \in TokenRecord
  BY <1>1 DEF AuthInv, AuthTyped
<1>3. record \in TokenRecord /\ record.from = t
  BY <1>2 DEF TokenRecord, NewToken
<1>4. /\ authTokens' = [authTokens EXCEPT ![t].status = "revoked", ![next] = record]
      /\ UNCHANGED authOp
  BY DEF RotateToken
<1> HIDE DEF record
<1>5. /\ authTokens' \in [TokenId -> TokenRecord \cup {Nobody}]
      /\ Descends /\ StaysSpent
  BY <1>1, <1>3, <1>4, Rotating DEF AuthInv
<1> QED
  BY <1>4, <1>5, CopiesKept

\* Revocation, expiry and the passing of time change one record in place.
LEMMA StepInPlace ==
    ASSUME AuthInv, NEW t \in TokenId,
           RevokeToken(t) \/ ExpireToken(t) \/ TimePasses(t)
    PROVE  AuthInv' /\ StaysSpent
<1>1. authTokens[t] # Nobody /\ UNCHANGED authOp
  BY DEF RevokeToken, ExpireToken, TimePasses, Tokens
<1>2. authTokens[t] \in TokenRecord
  BY <1>1 DEF AuthInv, AuthTyped
<1>3. \E record \in TokenRecord :
         /\ record.from = authTokens[t].from
         /\ Spent(authTokens[t]) => Spent(record)
         /\ authTokens' = [authTokens EXCEPT ![t] = record]
  <2>1. CASE RevokeToken(t)
    <3> DEFINE record == [authTokens[t] EXCEPT !.status = "revoked"]
    <3>1. record \in TokenRecord /\ record.from = authTokens[t].from /\ record.status = "revoked"
      BY <1>2 DEF TokenRecord
    <3>2. Spent(record)
      BY <3>1, NobodyIsApart DEF Spent, ExpiredCopy, Expired
    <3>3. authTokens' = [authTokens EXCEPT ![t] = record]
      BY <2>1 DEF RevokeToken
    <3> QED
      BY <3>1, <3>2, <3>3
  <2>2. CASE ExpireToken(t)
    <3> DEFINE record == [authTokens[t] EXCEPT !.status = "expired", !.due = "past"]
    <3>1. record \in TokenRecord /\ record.from = authTokens[t].from /\ record.status = "expired"
      BY <1>2 DEF TokenRecord
    <3>2. Spent(record)
      BY <3>1, NobodyIsApart DEF Spent, ExpiredCopy, Expired
    <3>3. authTokens' = [authTokens EXCEPT ![t] = record]
      BY <1>2, <2>2 DEF ExpireToken, AuthInv, AuthTyped, TokenRecord
    <3> QED
      BY <3>1, <3>2, <3>3
  <2>3. CASE TimePasses(t)
    <3> DEFINE record == [authTokens[t] EXCEPT !.due = "past"]
    <3>1. /\ record \in TokenRecord /\ record.from = authTokens[t].from
          /\ record.status = authTokens[t].status /\ record.due = "past"
      BY <1>2 DEF TokenRecord
    <3>2. Spent(record)
      BY <1>2, <3>1, NobodyIsApart DEF Spent, ExpiredCopy, Expired, TokenRecord
    <3>3. authTokens' = [authTokens EXCEPT ![t] = record]
      BY <2>3 DEF TimePasses
    <3> QED
      BY <3>1, <3>2, <3>3
  <2> QED
    BY <2>1, <2>2, <2>3
<1>4. /\ authTokens' \in [TokenId -> TokenRecord \cup {Nobody}]
      /\ Descends /\ StaysSpent
  BY <1>1, <1>3, Replacing DEF AuthInv
<1> QED
  BY <1>1, <1>4, CopiesKept

LEMMA StepReadToken ==
    ASSUME AuthInv, NEW w \in AuthWorker, NEW t \in TokenId, ReadToken(w, t)
    PROVE  AuthInv' /\ StaysSpent
<1> DEFINE request == [does |-> "read", id |-> t, token |-> authTokens[t]]
<1>1. authTokens[t] # Nobody /\ authTokens[t] \in TokenRecord
  BY DEF ReadToken, Tokens, AuthInv, AuthTyped
<1>2. /\ request \in AuthRequest /\ request.does = "read"
      /\ authTokens[request.id] # Nobody
      /\ request.token.from = authTokens[request.id].from
  BY <1>1 DEF AuthRequest
<1>3. UNCHANGED authTokens /\ authOp' = [authOp EXCEPT ![w] = request]
  BY DEF ReadToken
<1> HIDE DEF request
<1>4. AuthInv'
  BY <1>2, <1>3, CopyTaken
<1> QED
  BY <1>3, <1>4, TokensLeft DEF AuthInv

LEMMA StepWriteBackExpired ==
    ASSUME AuthInv, NEW w \in AuthWorker, WriteBackExpired(w)
    PROVE  AuthInv' /\ StaysSpent
<1> DEFINE t == authOp[w].id
           record == ExpiredCopy(authOp[w].token)
<1>1. authOp[w] # Nobody /\ authOp[w].does = "read" /\ Expired(authOp[w].token)
  BY DEF WriteBackExpired
<1>2. t \in TokenId /\ authOp[w].token \in TokenRecord
  BY <1>1 DEF AuthInv, AuthTyped, AuthRequest
<1>3. authTokens[t] # Nobody /\ authOp[w].token.from = authTokens[t].from
  BY <1>1 DEF AuthInv, CopiesBelong
<1>4. /\ record \in TokenRecord /\ record.from = authTokens[t].from
      /\ record.status = "expired"
  BY <1>1, <1>2, <1>3 DEF ExpiredCopy, TokenRecord
<1>5. Spent(record)
  BY <1>4, NobodyIsApart DEF Spent, ExpiredCopy, Expired
<1>6. /\ authTokens' = [authTokens EXCEPT ![t] = record]
      /\ authOp' = [authOp EXCEPT ![w] = Nobody]
  BY DEF WriteBackExpired
<1> HIDE DEF t, record
<1>7. /\ authTokens' \in [TokenId -> TokenRecord \cup {Nobody}]
      /\ Descends /\ StaysSpent
  BY <1>2, <1>3, <1>4, <1>5, <1>6, Replacing DEF AuthInv
<1> QED
  BY <1>6, <1>7, CopyDone

\* The time of use, which the model leaves out, changes the record in place.
LEMMA StepUseToken ==
    ASSUME AuthInv, NEW w \in AuthWorker, UseToken(w)
    PROVE  AuthInv' /\ StaysSpent
<1> DEFINE t == authOp[w].id
<1>1. authTokens' = [authTokens EXCEPT ![t] = authTokens[t]]
  BY DEF UseToken, UsedWritten
<1>2. UNCHANGED authTokens
  BY <1>1 DEF AuthInv, AuthTyped
<1>3. authOp' = [authOp EXCEPT ![w] = Nobody]
  BY DEF UseToken
<1> QED
  BY <1>2, <1>3, TokensLeft, CopyDone DEF AuthInv

LEMMA StepLeaveToken ==
    ASSUME AuthInv, NEW w \in AuthWorker, LeaveToken(w)
    PROVE  AuthInv' /\ StaysSpent
<1>1. UNCHANGED authTokens /\ authOp' = [authOp EXCEPT ![w] = Nobody]
  BY DEF LeaveToken
<1> QED
  BY <1>1, TokensLeft, CopyDone DEF AuthInv

\* Operators and groups come and go; the tokens stay.
LEMMA TokensStutter ==
    ASSUME AuthInv, UNCHANGED <<authTokens, authOp>>
    PROVE  AuthInv' /\ StaysSpent
  BY TokensLeft, CopiesKept DEF AuthInv

LEMMA AuthStep ==
    ASSUME AuthInv, [AuthNext]_authVars
    PROVE  AuthInv' /\ StaysSpent
<1>1. ASSUME NEW o \in OperatorId, NEW grant \in OperatorGrant,
             \/ CreateOperator(o, grant)
             \/ \E status \in {"active", "inactive"} : UpdateOperator(o, grant, status)
      PROVE  UNCHANGED <<authTokens, authOp>>
  BY <1>1 DEF CreateOperator, UpdateOperator
<1>2. ASSUME NEW g \in GroupId, NEW capabilities \in GroupGrant,
             \/ CreateOperatorGroup(g, capabilities)
             \/ \E status \in {"active", "inactive"} : UpdateOperatorGroup(g, capabilities, status)
      PROVE  UNCHANGED <<authTokens, authOp>>
  BY <1>2 DEF CreateOperatorGroup, UpdateOperatorGroup
<1>3. CASE UNCHANGED authVars
  BY <1>3, TokensStutter DEF authVars
<1>4. CASE AuthNext
  <2>1. CASE \/ \E o \in OperatorId, grant \in OperatorGrant :
                   \/ CreateOperator(o, grant)
                   \/ \E status \in {"active", "inactive"} : UpdateOperator(o, grant, status)
             \/ \E g \in GroupId, capabilities \in GroupGrant :
                   \/ CreateOperatorGroup(g, capabilities)
                   \/ \E status \in {"active", "inactive"} : UpdateOperatorGroup(g, capabilities, status)
    BY <1>1, <1>2, <2>1, TokensStutter
  <2>2. CASE \E w \in AuthWorker, o \in OperatorId, capabilities \in TokenGrant, due \in {"never", "later"} :
                AskForToken(w, o, capabilities, due)
    BY <2>2, StepAskForToken
  <2>3. CASE \E t, next \in TokenId, capabilities \in TokenGrant, due \in {"never", "later"} :
                RotateToken(t, next, capabilities, due)
    BY <2>3, StepRotateToken
  <2>4. CASE \E t \in TokenId : RevokeToken(t) \/ ExpireToken(t) \/ TimePasses(t)
    BY <2>4, StepInPlace
  <2>5. CASE \E w \in AuthWorker, t \in TokenId : IssueToken(w, t) \/ ReadToken(w, t)
    BY <2>5, StepIssueToken, StepReadToken
  <2>6. CASE \E w \in AuthWorker : WriteBackExpired(w) \/ UseToken(w) \/ LeaveToken(w)
    BY <2>6, StepWriteBackExpired, StepUseToken, StepLeaveToken
  <2> QED
    BY <1>4, <2>1, <2>2, <2>3, <2>4, <2>5, <2>6 DEF AuthNext
<1> QED
  BY <1>3, <1>4

LEMMA AuthStart == AuthInit => AuthInv
<1> SUFFICES ASSUME AuthInit PROVE AuthInv
  OBVIOUS
<1>1. AuthTyped
  BY DEF AuthInit, AuthTyped
<1>2. CopiesBelong
  BY DEF AuthInit, CopiesBelong
<1> QED
  BY <1>1, <1>2 DEF AuthInv

\* In every behaviour the copies belong to stored tokens of their descent.
THEOREM CopiesAlwaysBelong == AuthSpec => []AuthInv
<1>1. AuthInv /\ [AuthNext]_authVars => AuthInv'
  BY AuthStep
<1> QED
  BY AuthStart, <1>1, PTL DEF AuthSpec

\* Revocation, rotation and expiry are final whatever readers write back
\* (auth.py:899-915) and requests record (auth.py:870), for any number of them.
THEOREM RevocationHolds == AuthSpec => RevocationIsFinal
<1>1. AuthInv /\ [AuthNext]_authVars => [StaysSpent]_authVars
  BY AuthStep
<1>2. AuthSpec => [][StaysSpent]_authVars
  BY <1>1, CopiesAlwaysBelong, PTL DEF AuthSpec
<1>3. StaysSpent <=> \A t \in TokenId :
          Spent(authTokens[t]) => Spent(authTokens'[t]) /\ Heirs(t)' \subseteq Heirs(t)
  BY DEF StaysSpent
<1> QED
  BY <1>2, <1>3, PTL DEF RevocationIsFinal

\* The services run the tokens as their specification says.
THEOREM ServicesKeepTokens == ServicesSpec => AuthSpec
<1>1. ServicesInit => AuthInit
  BY DEF ServicesInit
<1>2. [ServicesNext]_serviceVars => [AuthNext]_authVars
  BY DEF ServicesNext, TokenStep, PluginStep, GitStep, serviceVars, authVars
<1> QED
  BY <1>1, <1>2, PTL DEF ServicesSpec, AuthSpec

\* Revocation is final beside the other services too.
THEOREM RevocationHoldsInServices == ServicesSpec => RevocationIsFinal
BY ServicesKeepTokens, RevocationHolds

----------------------------------------------------------------------------
(* Hook rules. *)

\* A nonempty set of numbers has a least one.
LEMMA Least ==
  ASSUME NEW T \in SUBSET Nat, T # {}
  PROVE  \E x \in T : \A y \in T : x <= y
<1>1. PICK x \in T : \A y \in T : ~(<<y, x>> \in OpToRel(<, Nat))
  BY NatLessThanWellFounded, WFMin
<1>2. \A y \in T : ~(y < x)
  BY <1>1 DEF OpToRel
<1> QED
  BY <1>2

\* What is stored is a rule of an operator or of a plugin.
Stored(h) ==
    \E rule, plugin, status, born : \E source \in {"local", "plugin"} :
        h = [rule |-> rule, source |-> source, plugin |-> plugin, status |-> status, born |-> born]

HooksAreStored ==
    /\ hooks = [i \in HookId |-> hooks[i]]
    /\ \A i \in HookId : hooks[i] = NoHook \/ Stored(hooks[i])
    /\ hookEdit = [p \in HookEditor |-> hookEdit[p]]
    /\ \A p \in HookEditor :
          hookEdit[p] = None \/ \E i, h : hookEdit[p] = [id |-> i, copy |-> h] /\ Stored(h)

\* A rule never relaxes the mode it is given.
LEMMA Tightens ==
  ASSUME NEW mode \in Modes, NEW effect
  PROVE  Severity(Tightened(mode, effect)) >= Severity(mode)
BY DEF Modes, Severity, Tightened

\* Among rules of which a managed one applies, one applies before all others.
LEMMA ManagedFirst ==
  ASSUME HooksAreStored,
         NEW T, T \subseteq Combined, NEW m \in T, m[2].source = "managed"
  PROVE  \E c \in T : /\ c[2].source = "managed"
                      /\ \A other \in T \ {c} : Ranks(c[2], other[2]) /\ ~Ranks(other[2], c[2])
<1> DEFINE M == {c \in T : c[2].source = "managed"}
           P == {c[2].rule.priority : c \in M}
<1>1. ASSUME NEW c \in T, c[2].source = "managed"
      PROVE  \E i \in DOMAIN ManagedHooks : c = <<i, ManagedHooks[i]>>
  BY <1>1 DEF Combined, HooksAreStored, Stored, Saved
<1>2. \A c \in M : c[2].rule.priority \in Nat /\ c[2].born \in Nat
  BY <1>1, ManagedHooksAreRanked
<1>3. PICK least \in P : \A y \in P : least <= y
  BY <1>2, Least
<1> DEFINE L == {c \in M : c[2].rule.priority = least}
           B == {c[2].born : c \in L}
<1>4. PICK first \in B : \A y \in B : first <= y
  BY <1>2, <1>3, Least
<1>5. PICK c \in L : c[2].born = first
  BY <1>4
<1>6. ASSUME NEW other \in T \ {c} PROVE Ranks(c[2], other[2]) /\ ~Ranks(other[2], c[2])
  <2>1. CASE other \in M
    <3>1. other[2].rule.priority # c[2].rule.priority \/ other[2].born # c[2].born
      BY <1>1, <1>6, <2>1, ManagedHooksAreRanked
    <3>2. c[2].rule.priority <= other[2].rule.priority
      BY <1>3, <2>1
    <3>3. c[2].rule.priority = other[2].rule.priority => c[2].born <= other[2].born
      BY <1>3, <1>4, <1>5, <2>1
    <3>4. /\ c[2].rule.priority \in Nat /\ c[2].born \in Nat
          /\ other[2].rule.priority \in Nat /\ other[2].born \in Nat
      BY <1>2, <2>1
    <3> QED
      BY <2>1, <3>1, <3>2, <3>3, <3>4 DEF Ranks
  <2>2. CASE other[2].source # "managed"
    BY <2>2 DEF Ranks
  <2> QED
    BY <2>1, <2>2
<1> QED
  BY <1>6

\* So that one decides.
LEMMA FirstDecides ==
  ASSUME NEW R, NEW surface, NEW action, NEW subject, NEW role, NEW mode, NEW c,
         c \in R, Applies(c[2], surface, action, subject, role),
         \A other \in {d \in R : Applies(d[2], surface, action, subject, role)} \ {c} :
            Ranks(c[2], other[2]) /\ ~Ranks(other[2], c[2])
  PROVE  DecisionAmong(R, surface, action, subject, role, mode).mode
            = Tightened(mode, c[2].rule.effect)
<1> DEFINE T == {d \in R : Applies(d[2], surface, action, subject, role)}
           Before(d) == \A other \in T \ {d} : Ranks(d[2], other[2])
           f == CHOOSE d \in T : Before(d)
<1>1. c \in T /\ Before(c)
  OBVIOUS
<1>2. f \in T /\ Before(f)
  <2> HIDE DEF T, Before
  <2> QED
    BY <1>1
<1>3. f = c
  BY <1>1, <1>2
<1>4. T # {}
  BY <1>1
<1>5. DecisionAmong(R, surface, action, subject, role, mode)
        = IF T = {} THEN [rule |-> None, mode |-> mode]
          ELSE [rule |-> f[1], mode |-> Tightened(mode, f[2].rule.effect)]
  BY DEF DecisionAmong
<1> QED
  BY <1>3, <1>4, <1>5

\* A decision among any rules is at least as strict as the mode asked for.
LEMMA DecisionTightens ==
  ASSUME NEW R, NEW surface, NEW action, NEW subject, NEW role, NEW mode \in Modes
  PROVE  Severity(DecisionAmong(R, surface, action, subject, role, mode).mode) >= Severity(mode)
<1>1. \/ DecisionAmong(R, surface, action, subject, role, mode).mode = mode
      \/ \E effect : DecisionAmong(R, surface, action, subject, role, mode).mode
                        = Tightened(mode, effect)
  BY DEF DecisionAmong
<1>2. Severity(mode) >= Severity(mode)
  BY DEF Modes, Severity
<1> QED
  BY <1>1, <1>2, Tightens

\* A managed rule that applies decides; where none does, the rest only tighten.
LEMMA NeverLoosened == HooksAreStored => ManagedNeverLoosened
<1> SUFFICES ASSUME HooksAreStored, NEW surface, NEW subject, NEW role, NEW mode \in Modes
             PROVE  Severity(HookDecision(surface, "any", subject, role, mode).mode) >=
                    Severity(DecisionAmong({c \in Combined : c[2].source = "managed"},
                                           surface, "any", subject, role, mode).mode)
  BY DEF ManagedNeverLoosened
<1> DEFINE M == {c \in Combined : c[2].source = "managed"}
           T == {c \in Combined : Applies(c[2], surface, "any", subject, role)}
<1>1. CASE \E m \in T : m[2].source = "managed"
  <2>1. PICK c \in T : /\ c[2].source = "managed"
                       /\ \A other \in T \ {c} : Ranks(c[2], other[2]) /\ ~Ranks(other[2], c[2])
    BY <1>1, ManagedFirst
  <2>2. HookDecision(surface, "any", subject, role, mode).mode = Tightened(mode, c[2].rule.effect)
    BY <2>1, FirstDecides DEF HookDecision
  <2>3. DecisionAmong(M, surface, "any", subject, role, mode).mode = Tightened(mode, c[2].rule.effect)
    BY <2>1, FirstDecides
  <2>4. Tightened(mode, c[2].rule.effect) \in Modes
    BY DEF Tightened, Modes
  <2> QED
    BY <2>2, <2>3, <2>4 DEF Severity, Modes
<1>2. CASE ~\E m \in T : m[2].source = "managed"
  <2>1. {d \in M : Applies(d[2], surface, "any", subject, role)} = {}
    BY <1>2
  <2>2. DecisionAmong(M, surface, "any", subject, role, mode).mode = mode
    BY <2>1 DEF DecisionAmong
  <2> QED
    BY <2>2, DecisionTightens DEF HookDecision
<1> QED
  BY <1>1, <1>2

\* An edited or disabled rule is still an operator's or a plugin's.
LEMMA EditedStored ==
  ASSUME NEW h, Stored(h), NEW field, NEW value
  PROVE  /\ Stored([h EXCEPT !.rule[field] = value])
         /\ Stored([h EXCEPT !.rule.enabled = FALSE, !.status = "disabled"])
<1>1. PICK rule, plugin, status, born, source :
        /\ source \in {"local", "plugin"}
        /\ h = [rule |-> rule, source |-> source, plugin |-> plugin, status |-> status,
                 born |-> born]
  BY DEF Stored
<1>2. ASSUME NEW r PROVE [h EXCEPT !.rule = r]
        = [rule |-> r, source |-> source, plugin |-> plugin, status |-> status, born |-> born]
  BY <1>1
<1>3. [h EXCEPT !.rule[field] = value] = [h EXCEPT !.rule = [h.rule EXCEPT ![field] = value]]
  OBVIOUS
<1>4. [h EXCEPT !.rule.enabled = FALSE, !.status = "disabled"]
        = [[h EXCEPT !.rule = [h.rule EXCEPT !.enabled = FALSE]] EXCEPT !.status = "disabled"]
  OBVIOUS
<1>5. ASSUME NEW r
      PROVE  [[rule |-> r, source |-> source, plugin |-> plugin, status |-> status, born |-> born]
                EXCEPT !.status = "disabled"]
             = [rule |-> r, source |-> source, plugin |-> plugin, status |-> "disabled", born |-> born]
  OBVIOUS
<1> DEFINE changed == [h EXCEPT !.rule[field] = value]
           disabled == [h EXCEPT !.rule.enabled = FALSE, !.status = "disabled"]
<1>6. \E r : changed = [rule |-> r, source |-> source, plugin |-> plugin, status |-> status, born |-> born]
  BY <1>2, <1>3
<1>7. \E r : disabled = [rule |-> r, source |-> source, plugin |-> plugin, status |-> "disabled",
                         born |-> born]
  BY <1>2, <1>4, <1>5
<1> HIDE DEF changed, disabled
<1>8. Stored(changed) /\ Stored(disabled)
  BY <1>1, <1>6, <1>7 DEF Stored
<1> QED
  BY <1>8 DEF changed, disabled

\* Replacing one rule by such a rule.
LEMMA StoringOne ==
  ASSUME HooksAreStored, NEW i, NEW h, Stored(h), hooks' = [hooks EXCEPT ![i] = h],
         UNCHANGED hookEdit
  PROVE  HooksAreStored'
BY DEF HooksAreStored

\* Operators store only such rules.
LEMMA EditHooksStored ==
  ASSUME HooksAreStored, HookNext
  PROVE  HooksAreStored'
<1>1. ASSUME NEW i \in HookId, NEW r \in HookRequest, CreateHook(i, r)
      PROVE  HooksAreStored'
  <2>1. Stored(Rule(r, "local", None, Cardinality(Saved)))
    BY DEF Stored, Rule
  <2> QED
    BY <1>1, <2>1, StoringOne DEF CreateHook
<1>2. ASSUME NEW p \in HookEditor, NEW i \in HookId, ReadHook(p, i)
      PROVE  HooksAreStored'
  <2>1. Stored(hooks[i]) /\ UNCHANGED hooks
    BY <1>2 DEF ReadHook, HooksAreStored, Saved
  <2>2. hookEdit' = [hookEdit EXCEPT ![p] = [id |-> i, copy |-> hooks[i]]]
    BY <1>2 DEF ReadHook
  <2> QED
    BY <2>1, <2>2 DEF HooksAreStored
<1>3. ASSUME NEW p \in HookEditor, NEW b \in BOOLEAN, SaveHook(p, "enabled", b)
      PROVE  HooksAreStored'
  <2>1. PICK i, h : hookEdit[p] = [id |-> i, copy |-> h] /\ Stored(h)
    BY <1>3 DEF SaveHook, HooksAreStored
  <2>2. hooks' = [hooks EXCEPT ![i] = [h EXCEPT !.rule["enabled"] = b]]
    BY <1>3, <2>1 DEF SaveHook
  <2>3. hookEdit' = [hookEdit EXCEPT ![p] = None]
    BY <1>3 DEF SaveHook
  <2> DEFINE new == [h EXCEPT !.rule["enabled"] = b]
  <2>4. Stored(new)
    BY <2>1, EditedStored
  <2> HIDE DEF new
  <2>5. \A j \in HookId : hooks'[j] = NoHook \/ Stored(hooks'[j])
    BY <2>2, <2>4 DEF HooksAreStored, new
  <2> QED
    BY <2>2, <2>3, <2>5 DEF HooksAreStored
<1> QED
  BY <1>1, <1>2, <1>3 DEF HookNext

\* Plugins install and disable only such rules.
LEMMA PluginHooksStored ==
  ASSUME HooksAreStored, PluginNext
  PROVE  HooksAreStored'
<1>1. ASSUME NEW w \in PluginWorker, InstallHook(w)
      PROVE  HooksAreStored'
  <2>1. PICK i, plugin, request : hooks' = hooks \/ hooks' = WithPluginHook(hooks, i, plugin, request)
    BY <1>1 DEF InstallHook
  <2>2. \A born : Stored(Rule(request, "plugin", plugin, born))
    BY DEF Stored, Rule
  <2>3. UNCHANGED hookEdit
    BY <1>1 DEF InstallHook
  <2>4. CASE hooks' = hooks
    BY <2>3, <2>4 DEF HooksAreStored
  <2>5. CASE hooks' = WithPluginHook(hooks, i, plugin, request)
    <3>1. PICK born : hooks' = [hooks EXCEPT ![i] = Rule(request, "plugin", plugin, born)]
      BY <2>5 DEF WithPluginHook
    <3> QED
      BY <2>2, <2>3, <3>1, StoringOne
  <2> QED
    BY <2>1, <2>4, <2>5
<1>2. ASSUME NEW plugin, DisableHooks(plugin)
      PROVE  HooksAreStored'
  <2>1. UNCHANGED hookEdit
    BY <1>2 DEF DisableHooks
  <2>4. hooks' = [i \in HookId |-> hooks'[i]]
    BY <1>2 DEF DisableHooks, WithoutPluginHooks
  <2>5. ASSUME NEW i \in HookId PROVE hooks'[i] = NoHook \/ Stored(hooks'[i])
    <3>1. CASE hooks'[i] = hooks[i]
      BY <3>1 DEF HooksAreStored
    <3>2. CASE hooks'[i] # hooks[i]
      <4> DEFINE disabled == [hooks[i] EXCEPT !.rule.enabled = FALSE, !.status = "disabled"]
      <4>1. hooks[i] # NoHook /\ hooks'[i] = disabled
        BY <1>2, <3>2 DEF DisableHooks, WithoutPluginHooks
      <4>2. Stored(disabled)
        BY <4>1, EditedStored DEF HooksAreStored
      <4> HIDE DEF disabled
      <4> QED
        BY <4>1, <4>2
    <3> QED
      BY <3>1, <3>2
  <2> QED
    BY <2>1, <2>4, <2>5 DEF HooksAreStored
<1>3. CASE UNCHANGED hookVars
  BY <1>3 DEF HooksAreStored, hookVars
<1> QED
  BY <1>1, <1>2, <1>3 DEF PluginNext, EditManifest, EditComponent, DecideTrust, DisableRecipes,
    DisableReferences, StartInstall, LoadComponents, InstallRecipe, InstallReferences, EndInstall,
    CheckTrust, CompareComponent, RunRecipe, ReadRecipe, CreateRecipe, UpdateRecipe

\* Every step of the services keeps it.
LEMMA HooksStayStored == HooksAreStored /\ [ServicesNext]_serviceVars => HooksAreStored'
<1>1. CASE UNCHANGED hookVars
  BY <1>1 DEF HooksAreStored, hookVars
<1> QED
  BY <1>1, EditHooksStored, PluginHooksStored
    DEF ServicesNext, TokenStep, GitStep, PluginStep, EditHooks, serviceVars, pluginVars

\* At first only managed rules are there.
LEMMA HooksStart == HookInit => HooksAreStored
BY DEF HookInit, HooksAreStored

\* Whatever rules operators make, edit and disable and plugins install, a decision
\* is at least as strict as the managed rules alone make it: for any rules,
\* subjects and roles.
THEOREM ManagedHolds == ServicesSpec => []ManagedNeverLoosened
<1>1. ServicesInit => HooksAreStored
  BY HooksStart DEF ServicesInit
<1> QED
  BY <1>1, HooksStayStored, NeverLoosened, PTL DEF ServicesSpec

----------------------------------------------------------------------------
(* Git commands. *)

\* What the checkpoint c shows of the repository f.
Shows(c, f) ==
    /\ c.branch = f.branch /\ c.paths.staged = Path(f.staged)
    /\ c.head \in {f.head, <<>>}
    /\ c.upstream \in {f.upstream, Unset}
    /\ c.staged \in {f.staged, Unset}

\* A git command was started with the checkpoint that was reviewed, which showed
\* what was there, and the runner pushes to no protected branch.
Reviewed ==
    gitOp = Unset \/ \E by, c, f :
        /\ gitOp = [by |-> by, action |-> c.action, target |-> c.upstream, reviewed |-> c, found |-> f]
        /\ Shows(c, f)
        /\ c.action # "commit" => c.upstream # Unset
        /\ (by = "runner" /\ c.action = "push") => c.upstream \notin ProtectedBranch

\* Local and remote branches.
Histories == logs = [b \in Branch |-> logs[b]] /\ remote = [b \in Branch |-> remote[b]]

\* A checkpoint shows the repository, as far as it could be read.
LEMMA CheckpointsShow == ASSUME NEW action, NEW c \in Checkpoints(action) PROVE Shows(c, Actual)
<1>1. /\ c.branch = branch /\ c.paths = [staged |-> Path(staged), edited |-> Path(edited)]
      /\ c.head \in Optional(logs[branch], <<>>) /\ c.upstream \in Optional(upstream[branch], Unset)
      /\ c.staged \in Optional(staged, Unset)
  BY DEF Checkpoints
<1> QED
  BY <1>1 DEF Shows, Actual, Optional

\* A command that is started has been reviewed.
LEMMA LaunchedReviewed ==
  ASSUME NEW action, NEW c \in Checkpoints(action), NEW held, NEW by,
         Accepted(c, held), Launch(by, c, held),
         (by = "runner" /\ c.action = "push") => c.upstream \notin ProtectedBranch
  PROVE  Reviewed'
<1>1. held = c
  BY DEF Accepted, SameCheckpoint
<1>2. gitOp' = [by |-> by, action |-> c.action, target |-> c.upstream, reviewed |-> c, found |-> Actual]
  BY <1>1 DEF Launch
<1>3. Shows(c, Actual)
  BY CheckpointsShow
<1>4. c.action # "commit" => c.upstream # Unset
  BY DEF Accepted, Publishable
<1> HIDE DEF Actual
<1>5. \E b, d, f :
        /\ gitOp' = [by |-> b, action |-> d.action, target |-> d.upstream, reviewed |-> d, found |-> f]
        /\ Shows(d, f)
        /\ d.action # "commit" => d.upstream # Unset
        /\ (b = "runner" /\ d.action = "push") => d.upstream \notin ProtectedBranch
  BY <1>2, <1>3, <1>4, Zenon
<1> QED
  BY <1>5 DEF Reviewed, Shows, Path

\* Every step of the services keeps it.
LEMMA ReviewedStep == Reviewed /\ [ServicesNext]_serviceVars => Reviewed'
<1> SUFFICES ASSUME Reviewed, [ServicesNext]_serviceVars PROVE Reviewed'
  OBVIOUS
<1>1. CASE UNCHANGED gitOp \/ gitOp' = Unset
  BY <1>1 DEF Reviewed, Shows, Path
<1>2. CASE StartRun
  <2>1. PICK c \in Checkpoints(reviewed.action) :
               /\ Accepted(c, reviewed)
               /\ c.action = "push" => c.upstream \notin ProtectedBranch
               /\ Launch("runner", c, reviewed)
    BY <1>2 DEF StartRun
  <2> QED
    BY <2>1, LaunchedReviewed
<1>3. CASE ExecuteGitApproval
  <2>1. PICK c \in Checkpoints(gitApproval.action) :
               Accepted(c, gitApproval) /\ Launch("approval", c, gitApproval)
    BY <1>3 DEF ExecuteGitApproval
  <2>2. "approval" # "runner"
    OBVIOUS
  <2> QED
    BY <2>1, <2>2, LaunchedReviewed
<1> QED
  BY <1>1, <1>2, <1>3 DEF ServicesNext, TokenStep, PluginStep, GitStep, GitNext, Review,
    AskGitApproval, GitApprovalLapses, GitRuns, GitFails, Develop, Fetch, OthersPush,
    serviceVars, gitVars

\* The histories stay histories of the same branches.
LEMMA HistoriesStep == Histories /\ [ServicesNext]_serviceVars => Histories'
<1> SUFFICES ASSUME Histories, [ServicesNext]_serviceVars PROVE Histories'
  OBVIOUS
<1>1. logs' = logs \/ (\E b, h : logs' = [logs EXCEPT ![b] = h])
  BY Zenon
  DEF ServicesNext, TokenStep, PluginStep, GitStep, GitNext, Review, StartRun, AskGitApproval,
    ExecuteGitApproval, GitApprovalLapses, GitRuns, GitFails, Commits, Develop, Edit, Stage,
    SwitchBranch, Reset, SetUpstream, Fetch, OthersPush, serviceVars, gitVars, repoVars
<1>2. remote' = remote \/ (\E b, h : remote' = [remote EXCEPT ![b] = h])
  BY Zenon
  DEF ServicesNext, TokenStep, PluginStep, GitStep, GitNext, Review, StartRun, AskGitApproval,
    ExecuteGitApproval, GitApprovalLapses, GitRuns, GitFails, Pushes, Develop, Fetch, OthersPush,
    serviceVars, gitVars, remoteVars
<1> QED
  BY <1>1, <1>2 DEF Histories

\* What the git command that ends has done, whatever has moved.
Confined(o) ==
    \A b \in Branch :
        /\ logs'[b] # logs[b] => o.action = "commit" /\ b = branch
        /\ remote'[b] # remote[b] =>
              /\ o.action = "push"
              /\ Common(remote[b], remote'[b]) = Len(remote[b])
              /\ o.by = "runner" => b = o.reviewed.upstream /\ b \notin ProtectedBranch

\* And if nothing has.
Published(o) ==
    LET held == o.reviewed
    IN  o.found = Actual /\ (logs' # logs \/ remote' # remote) =>
            /\ branch = held.branch
            /\ held.head # <<>> => logs[branch] = held.head
            /\ logs' # logs =>
                  /\ Path(staged) = held.paths.staged
                  /\ held.staged # Unset => staged = held.staged
                  /\ logs' = [logs EXCEPT ![branch] = Append(@, staged)]
            /\ remote' # remote => remote' = [remote EXCEPT ![held.upstream] = logs[branch]]

\* The step that ends a git command does what was reviewed.
LEMMA EndsAsReviewed ==
  ASSUME Reviewed, Histories, [ServicesNext]_serviceVars, gitOp # Unset, gitOp' = Unset
  PROVE  Confined(gitOp) /\ Published(gitOp)
<1>1. PICK by, c, f :
        /\ gitOp = [by |-> by, action |-> c.action, target |-> c.upstream, reviewed |-> c, found |-> f]
        /\ Shows(c, f)
        /\ c.action # "commit" => c.upstream # Unset
        /\ (by = "runner" /\ c.action = "push") => c.upstream \notin ProtectedBranch
  BY DEF Reviewed
<1>2. /\ gitOp.by = by /\ gitOp.action = c.action /\ gitOp.target = c.upstream
      /\ gitOp.reviewed = c /\ gitOp.found = f
  BY <1>1
<1>3. GitRuns \/ GitFails
  BY DEF ServicesNext, TokenStep, PluginStep, GitStep, GitNext, Review, StartRun, AskGitApproval,
    ExecuteGitApproval, GitApprovalLapses, Develop, Fetch, OthersPush, serviceVars, gitVars
<1>4. f = Actual =>
        /\ branch = c.branch /\ Path(staged) = c.paths.staged
        /\ c.head # <<>> => logs[branch] = c.head
        /\ c.upstream # Unset => c.upstream = upstream[branch]
        /\ c.staged # Unset => staged = c.staged
  BY <1>1 DEF Shows, Actual
<1>5. CASE UNCHANGED <<logs, remote>>
  BY <1>5 DEF Confined, Published
<1>6. CASE GitRuns /\ c.action = "commit"
  <2>1. logs' = [logs EXCEPT ![branch] = Append(logs[branch], staged)] /\ UNCHANGED remote
    BY <1>2, <1>6 DEF GitRuns, Commits, remoteVars
  <2>2. Confined(gitOp)
    BY <1>2, <1>6, <2>1 DEF Confined, Histories
  <2> QED
    BY <1>2, <1>4, <2>1, <2>2 DEF Published
<1>7. CASE GitRuns /\ c.action = "push"
  <2>1. PICK target \in PushTarget(gitOp) : Pushes(target) /\ UNCHANGED logs
    BY <1>2, <1>7 DEF GitRuns, repoVars
  <2>2. /\ remote' = [remote EXCEPT ![target] = logs[branch]]
        /\ Common(remote[target], logs[branch]) = Len(remote[target])
    BY <2>1 DEF Pushes
  <2>3. by = "runner" => target = c.upstream
    BY <1>2, <2>1 DEF PushTarget
  <2>4. f = Actual => target = c.upstream
    BY <1>1, <1>2, <1>4, <1>7, <2>1 DEF PushTarget
  <2>5. \A b \in Branch : remote'[b] # remote[b] => b = target /\ remote'[b] = logs[branch]
    BY <2>2 DEF Histories
  <2>6. Confined(gitOp)
    BY <1>1, <1>2, <1>7, <2>1, <2>2, <2>3, <2>5 DEF Confined
  <2>7. Published(gitOp)
    BY <1>2, <1>4, <2>1, <2>2, <2>4 DEF Published
  <2> QED
    BY <2>6, <2>7
<1>8. CASE GitFails \/ (GitRuns /\ c.action \notin {"commit", "push"})
  BY <1>2, <1>5, <1>8 DEF GitRuns, GitFails, repoVars, remoteVars
<1> QED
  BY <1>3, <1>6, <1>7, <1>8

\* Whatever developers and other clones do at any point, and whatever git fails
\* to print: a commit or push does what was reviewed, as far as that could be
\* read, if nothing moved since it was checked; and if something did, it loses
\* nothing that others pushed and the runner touches no other remote branch.
THEOREM ReviewsHold == ServicesSpec => ActsOnReviewed
<1>1. ServicesInit => Reviewed /\ Histories
  BY DEF ServicesInit, GitInit, Reviewed, Histories
<1>2. Reviewed /\ Histories /\ [ServicesNext]_serviceVars =>
        [gitOp # Unset /\ gitOp' = Unset => Confined(gitOp) /\ Published(gitOp)]_serviceVars
  BY EndsAsReviewed
<1>3. [gitOp # Unset /\ gitOp' = Unset => Confined(gitOp) /\ Published(gitOp)]_serviceVars =>
        [gitOp # Unset /\ gitOp' = Unset =>
          LET o == gitOp
              held == o.reviewed
          IN  /\ \A b \in Branch :
                    /\ logs'[b] # logs[b] => o.action = "commit" /\ b = branch
                    /\ remote'[b] # remote[b] =>
                          /\ o.action = "push"
                          /\ Common(remote[b], remote'[b]) = Len(remote[b])
                          /\ o.by = "runner" => b = held.upstream /\ b \notin ProtectedBranch
              /\ o.found = Actual /\ (logs' # logs \/ remote' # remote) =>
                    /\ branch = held.branch
                    /\ held.head # <<>> => logs[branch] = held.head
                    /\ logs' # logs =>
                          /\ Path(staged) = held.paths.staged
                          /\ held.staged # Unset => staged = held.staged
                          /\ logs' = [logs EXCEPT ![branch] = Append(@, staged)]
                    /\ remote' # remote => remote' = [remote EXCEPT ![held.upstream] = logs[branch]]]_serviceVars
  BY DEF Confined, Published
<1> QED
  BY <1>1, <1>2, <1>3, ReviewedStep, HistoriesStep, PTL DEF ServicesSpec, ActsOnReviewed

----------------------------------------------------------------------------
(* Recipes of plugins. *)

FileContent == UNION {Contents[path] : path \in PluginPath}
Part == [path : PluginPath, content : FileContent]
Kind == {"recipes", "hooks", "references"}

\* A recipe as a plugin ships it: it runs what its file said when it was installed,
\* and its manifest lists that file.
Shipped(recipe) ==
    /\ recipe = [source |-> "plugin", origin |-> recipe.origin, status |-> recipe.status,
                 enabled |-> recipe.enabled, template |-> recipe.origin.content.template]
    /\ \E n \in DOMAIN recipe.origin.manifest["recipes"] :
          recipe.origin.manifest["recipes"][n] = recipe.origin.path

Local(recipe) == recipe = LocalRecipe(recipe.template, recipe.enabled)

Loads(o) == o \in [does : {"load"}, kind : Kind, plugin : Plugin, manifest : Manifest]

Installs(o) ==
    /\ o \in [does : {"install"}, kind : Kind, plugin : Plugin, manifest : Manifest, todo : Seq(Part)]
    /\ \A k \in 1..Len(o.todo) : \E n \in DOMAIN o.manifest[o.kind] : o.manifest[o.kind][n] = o.todo[k].path

RunsRecipe(o) ==
    /\ o = [does |-> o.does, recipe |-> o.recipe]
    /\ o.does \in {"check", "compare", "run"}
    /\ o.does # "run" => Shipped(o.recipe)

DiskFits == disk \in [Plugin -> [manifest : Manifest, holds : [PluginPath -> FileContent]]]

RecipesFit ==
    /\ recipes = [i \in RecipeId |-> recipes[i]]
    /\ \A i \in RecipeId : recipes[i] = None \/ Shipped(recipes[i]) \/ Local(recipes[i])

OpFits(o) == o = None \/ Loads(o) \/ Installs(o) \/ RunsRecipe(o)

OpsFit ==
    /\ pluginOp = [w \in PluginWorker |-> pluginOp[w]]
    /\ \A w \in PluginWorker : OpFits(pluginOp[w])

RecipeInv == DiskFits /\ RecipesFit /\ OpsFit

\* The invariant holds at first.
LEMMA RecipeInit == PluginInit => RecipeInv
<1> SUFFICES ASSUME PluginInit PROVE RecipeInv
  OBVIOUS
<1>1. (CHOOSE m \in Manifest : TRUE) \in Manifest
  BY PluginFilesAssumption
<1>2. \A path \in PluginPath : (CHOOSE content \in Contents[path] : TRUE) \in FileContent
  <2> TAKE path \in PluginPath
  <2>1. (CHOOSE content \in Contents[path] : TRUE) \in Contents[path]
    BY PluginFilesAssumption
  <2> QED
    BY <2>1 DEF FileContent
<1>3. [path \in PluginPath |-> CHOOSE content \in Contents[path] : TRUE] \in [PluginPath -> FileContent]
  BY <1>2
<1> DEFINE m0 == CHOOSE m \in Manifest : TRUE
           h0 == [path \in PluginPath |-> CHOOSE content \in Contents[path] : TRUE]
<1>4. disk = [plugin \in Plugin |-> [manifest |-> m0, holds |-> h0]]
  BY DEF PluginInit
<1>5. m0 \in Manifest /\ h0 \in [PluginPath -> FileContent]
  BY <1>1, <1>3
<1> HIDE DEF m0, h0
<1>6. DiskFits
  BY <1>4, <1>5 DEF DiskFits
<1>7. RecipesFit /\ OpsFit
  BY DEF PluginInit, RecipesFit, OpsFit, OpFits
<1> QED
  BY <1>6, <1>7 DEF RecipeInv

\* A worker whose new request fits leaves the others as they are.
LEMMA Becoming ==
  ASSUME OpsFit, NEW w \in PluginWorker, NEW o, OpFits(o), Become(w, o)
  PROVE  OpsFit'
<1>1. pluginOp' = [pluginOp EXCEPT ![w] = o]
  BY DEF Become
<1>2. \A x \in PluginWorker : pluginOp'[x] = IF x = w THEN o ELSE pluginOp[x]
  BY <1>1 DEF OpsFit
<1>3. pluginOp' = [x \in PluginWorker |-> pluginOp'[x]]
  BY <1>1 DEF OpsFit
<1>4. ASSUME NEW x \in PluginWorker PROVE OpFits(pluginOp'[x])
  BY <1>2 DEF OpsFit
<1> QED
  BY <1>3, <1>4 DEF OpsFit

\* Steps that leave the files and the recipes alone.
LEMMA RecipeFrame ==
  ASSUME RecipeInv, UNCHANGED <<disk, recipes>>, OpsFit'
  PROVE  RecipeInv'
<1>1. DiskFits'
  BY DEF RecipeInv, DiskFits
<1>2. RecipesFit'
  BY DEF RecipeInv, RecipesFit
<1> QED
  BY <1>1, <1>2 DEF RecipeInv

\* A request to install holds a manifest.
LEMMA StartingInstall ==
  ASSUME RecipeInv, NEW w \in PluginWorker, NEW plugin \in Plugin, NEW kind \in Kind,
         StartInstall(w, plugin, kind)
  PROVE  RecipeInv'
<1> DEFINE o == [does |-> "load", kind |-> kind, plugin |-> plugin, manifest |-> disk[plugin].manifest]
<1>1. disk[plugin].manifest \in Manifest
  BY DEF RecipeInv, DiskFits
<1>2. OpFits(o)
  BY <1>1 DEF OpFits, Loads
<1>3. Become(w, o) /\ UNCHANGED <<disk, recipes>>
  BY DEF StartInstall
<1> HIDE DEF o
<1>4. OpsFit'
  BY <1>2, <1>3, Becoming DEF RecipeInv, Become
<1> QED
  BY <1>3, <1>4, RecipeFrame

\* The files it loads are those that the manifest lists.
LEMMA LoadingComponents ==
  ASSUME RecipeInv, NEW w \in PluginWorker, LoadComponents(w)
  PROVE  RecipeInv'
<1>1. OpFits(pluginOp[w]) /\ pluginOp[w] # None /\ pluginOp[w].does = "load"
  BY DEF RecipeInv, OpsFit, LoadComponents, Idle
<1>2. Loads(pluginOp[w])
  BY <1>1 DEF OpFits, Installs, RunsRecipe
<1> DEFINE kind == pluginOp[w].kind
           plugin == pluginOp[w].plugin
           manifest == pluginOp[w].manifest
           paths == manifest[kind]
           loaded == [n \in DOMAIN paths |->
                        [path |-> paths[n], content |-> disk[plugin].holds[paths[n]]]]
           o == [does |-> "install", kind |-> kind, plugin |-> plugin, manifest |-> manifest,
                 todo |-> loaded]
<1>3. kind \in Kind /\ plugin \in Plugin /\ manifest \in Manifest
  BY <1>2 DEF Loads
<1>4. Become(w, None) \/ Become(w, o)
  BY <1>3 DEF LoadComponents
<1>5. paths \in Seq(PluginPath)
  BY <1>3, PluginFilesAssumption DEF Kind
<1>6. disk[plugin].holds \in [PluginPath -> FileContent]
  BY <1>3 DEF RecipeInv, DiskFits
<1>7. /\ loaded \in Seq(Part)
      /\ \A k \in 1..Len(loaded) : k \in DOMAIN paths /\ paths[k] = loaded[k].path
  <2> DEFINE f == disk[plugin].holds
             part(n) == [path |-> paths[n], content |-> f[paths[n]]]
  <2> HIDE DEF paths, f
  <2>1. DOMAIN paths = 1..Len(paths) /\ Len(paths) \in Nat
    BY <1>5
  <2>2. \A n \in DOMAIN paths : part(n) \in Part /\ part(n).path = paths[n]
    <3> TAKE n \in DOMAIN paths
    <3>1. paths[n] \in PluginPath
      BY <1>5, <2>1
    <3>2. f[paths[n]] \in FileContent
      BY <1>6, <3>1 DEF f
    <3> QED
      BY <3>1, <3>2 DEF Part
  <2>3. loaded = [n \in 1..Len(paths) |-> part(n)]
    BY <2>1 DEF f
  <2> HIDE DEF loaded, part
  <2>4. loaded \in Seq(Part) /\ Len(loaded) = Len(paths)
    BY <2>1, <2>2, <2>3
  <2>5. \A k \in 1..Len(loaded) : loaded[k] = part(k)
    BY <2>1, <2>3, <2>4
  <2> QED
    BY <2>1, <2>2, <2>4, <2>5
<1> HIDE DEF loaded
<1>9. OpFits(o) /\ OpFits(None)
  BY <1>3, <1>7 DEF OpFits, Installs
<1>10. UNCHANGED <<disk, recipes>>
  BY DEF LoadComponents
<1> HIDE DEF o
<1>11. OpsFit'
  BY <1>4, <1>9, Becoming DEF RecipeInv, Become
<1> QED
  BY <1>10, <1>11, RecipeFrame

\* Files and manifests that their author edits are still files and manifests.
LEMMA Editing ==
  ASSUME RecipeInv, UNCHANGED <<recipes, pluginOp>>,
         NEW plugin \in Plugin,
         \/ \E m \in Manifest : EditManifest(plugin, m)
         \/ \E path \in PluginPath : \E content \in Contents[path] : EditComponent(plugin, path, content)
  PROVE  RecipeInv'
<1>1. DiskFits'
  <2>1. CASE \E m \in Manifest : EditManifest(plugin, m)
    BY <2>1 DEF EditManifest, RecipeInv, DiskFits
  <2>2. ASSUME NEW path \in PluginPath, NEW content \in Contents[path],
               EditComponent(plugin, path, content)
        PROVE  DiskFits'
    <3>1. content \in FileContent
      BY DEF FileContent
    <3> QED
      BY <2>2, <3>1 DEF EditComponent, RecipeInv, DiskFits
  <2> QED
    BY <2>1, <2>2
<1>2. RecipesFit' /\ OpsFit'
  BY DEF RecipeInv, RecipesFit, OpsFit
<1> QED
  BY <1>1, <1>2 DEF RecipeInv

\* The next file of an installation becomes a recipe that is as it was shipped.
LEMMA InstallingRecipe ==
  ASSUME RecipeInv, NEW w \in PluginWorker, InstallRecipe(w)
  PROVE  RecipeInv'
<1>1. OpFits(pluginOp[w]) /\ pluginOp[w] # None /\ pluginOp[w].does = "install"
  BY DEF RecipeInv, OpsFit, InstallRecipe, Idle
<1>2. Installs(pluginOp[w])
  BY <1>1 DEF OpFits, Loads, RunsRecipe
<1> DEFINE kind == pluginOp[w].kind
           plugin == pluginOp[w].plugin
           manifest == pluginOp[w].manifest
           todo == pluginOp[w].todo
<1>3. /\ kind \in Kind /\ plugin \in Plugin /\ manifest \in Manifest /\ todo \in Seq(Part)
      /\ pluginOp[w] = [does |-> "install", kind |-> kind, plugin |-> plugin,
                        manifest |-> manifest, todo |-> todo]
      /\ \A k \in 1..Len(todo) : \E n \in DOMAIN manifest[kind] : manifest[kind][n] = todo[k].path
  BY <1>2 DEF Installs
<1>4. kind = "recipes" /\ todo # <<>>
  BY <1>3 DEF InstallRecipe
<1>5. /\ Head(todo) = todo[1] /\ 1 \in 1..Len(todo) /\ Tail(todo) \in Seq(Part)
      /\ \A k \in 1..Len(Tail(todo)) : k + 1 \in 1..Len(todo) /\ Tail(todo)[k] = todo[k + 1]
  BY <1>3, <1>4
<1> DEFINE part == Head(todo)
           o == [does |-> "install", kind |-> kind, plugin |-> plugin, manifest |-> manifest,
                 todo |-> Tail(todo)]
           recipe == [source |-> "plugin",
                      origin |-> [plugin |-> plugin, manifest |-> manifest, path |-> part.path,
                                  content |-> part.content],
                      status |-> "active", enabled |-> part.content.enabled, template |-> part.content.template]
<1>6. \E n \in DOMAIN manifest["recipes"] : manifest["recipes"][n] = part.path
  BY <1>3, <1>4, <1>5
<1>7. Shipped(recipe)
  BY <1>6 DEF Shipped
<1>8. \A k \in 1..Len(Tail(todo)) : \E n \in DOMAIN manifest[kind] : manifest[kind][n] = Tail(todo)[k].path
  BY <1>3, <1>5
<1>9. OpFits(o) /\ OpFits(None)
  BY <1>3, <1>5, <1>8 DEF OpFits, Installs
<1>10. [pluginOp[w] EXCEPT !.todo = Tail(@)] = o
  <2> DEFINE held == pluginOp[w]
  <2>1. held = [does |-> "install", kind |-> held.kind, plugin |-> held.plugin,
                manifest |-> held.manifest, todo |-> held.todo]
    BY <1>3
  <2> HIDE DEF held
  <2>2. \A rest : [held EXCEPT !.todo = rest] =
          [does |-> "install", kind |-> held.kind, plugin |-> held.plugin,
           manifest |-> held.manifest, todo |-> rest]
    BY <2>1
  <2> QED
    BY <2>1, <2>2 DEF held
<1>11. Origin(pluginOp[w], part) = recipe.origin
  BY <1>3 DEF Origin
<1> HIDE DEF o
<1>12. /\ Become(w, None) \/ Become(w, o)
       /\ UNCHANGED disk
  BY <1>3, <1>10 DEF InstallRecipe
<1>13. recipes' = recipes \/ recipes' = [recipes EXCEPT ![part.content.id] = recipe]
  BY <1>3, <1>11 DEF InstallRecipe, WithRecipe
<1> HIDE DEF recipe, part
<1>14. RecipesFit'
  <2>1. CASE recipes' = recipes
    BY <2>1 DEF RecipeInv, RecipesFit
  <2>2. CASE recipes' = [recipes EXCEPT ![part.content.id] = recipe]
    <3>1. recipes' = [i \in RecipeId |-> recipes'[i]]
      BY <2>2 DEF RecipeInv, RecipesFit
    <3>2. \A i \in RecipeId : recipes'[i] = recipes[i] \/ recipes'[i] = recipe
      BY <2>2 DEF RecipeInv, RecipesFit
    <3> QED
      BY <3>1, <3>2, <1>7 DEF RecipeInv, RecipesFit
  <2> QED
    BY <1>13, <2>1, <2>2
<1>15. OpsFit'
  BY <1>9, <1>12, Becoming DEF RecipeInv, Become
<1>16. DiskFits'
  BY <1>12 DEF RecipeInv, DiskFits
<1> QED
  BY <1>14, <1>15, <1>16 DEF RecipeInv

\* Installing a hook rule only shortens what is left to install.
LEMMA InstallingHook ==
  ASSUME RecipeInv, NEW w \in PluginWorker, InstallHook(w)
  PROVE  RecipeInv'
<1>1. OpFits(pluginOp[w]) /\ pluginOp[w] # None /\ pluginOp[w].does = "install"
  BY DEF RecipeInv, OpsFit, InstallHook, Idle
<1>2. Installs(pluginOp[w])
  BY <1>1 DEF OpFits, Loads, RunsRecipe
<1> DEFINE kind == pluginOp[w].kind
           plugin == pluginOp[w].plugin
           manifest == pluginOp[w].manifest
           todo == pluginOp[w].todo
<1>3. /\ kind \in Kind /\ plugin \in Plugin /\ manifest \in Manifest /\ todo \in Seq(Part)
      /\ pluginOp[w] = [does |-> "install", kind |-> kind, plugin |-> plugin,
                        manifest |-> manifest, todo |-> todo]
      /\ \A k \in 1..Len(todo) : \E n \in DOMAIN manifest[kind] : manifest[kind][n] = todo[k].path
  BY <1>2 DEF Installs
<1>4. todo # <<>>
  BY <1>3 DEF InstallHook
<1>5. /\ Tail(todo) \in Seq(Part)
      /\ \A k \in 1..Len(Tail(todo)) : k + 1 \in 1..Len(todo) /\ Tail(todo)[k] = todo[k + 1]
  BY <1>3, <1>4
<1> DEFINE o == [does |-> "install", kind |-> kind, plugin |-> plugin, manifest |-> manifest,
                 todo |-> Tail(todo)]
<1>8. \A k \in 1..Len(Tail(todo)) : \E n \in DOMAIN manifest[kind] : manifest[kind][n] = Tail(todo)[k].path
  BY <1>3, <1>5
<1>9. OpFits(o) /\ OpFits(None)
  BY <1>3, <1>5, <1>8 DEF OpFits, Installs
<1>10. [pluginOp[w] EXCEPT !.todo = Tail(@)] = o
  <2> DEFINE held == pluginOp[w]
  <2>1. held = [does |-> "install", kind |-> held.kind, plugin |-> held.plugin,
                manifest |-> held.manifest, todo |-> held.todo]
    BY <1>3
  <2> HIDE DEF held
  <2>2. \A rest : [held EXCEPT !.todo = rest] =
          [does |-> "install", kind |-> held.kind, plugin |-> held.plugin,
           manifest |-> held.manifest, todo |-> rest]
    BY <2>1
  <2> QED
    BY <2>1, <2>2 DEF held
<1> HIDE DEF o
<1>12. /\ Become(w, None) \/ Become(w, o)
       /\ UNCHANGED <<disk, recipes>>
  BY <1>3, <1>10 DEF InstallHook
<1>15. OpsFit'
  BY <1>9, <1>12, Becoming DEF RecipeInv, Become
<1> QED
  BY <1>12, <1>15, RecipeFrame

\* A request that ends leaves nothing behind.
LEMMA Ending ==
  ASSUME RecipeInv, NEW w \in PluginWorker, InstallReferences(w) \/ EndInstall(w) \/ RunRecipe(w)
  PROVE  RecipeInv'
<1>1. Become(w, None) /\ UNCHANGED <<disk, recipes>>
  BY DEF InstallReferences, EndInstall, RunRecipe
<1>2. OpFits(None)
  BY DEF OpFits
<1>3. OpsFit'
  BY <1>1, <1>2, Becoming DEF RecipeInv, Become
<1> QED
  BY <1>1, <1>3, RecipeFrame

\* A request that runs a recipe holds the recipe as it was stored.
LEMMA ReadingRecipe ==
  ASSUME RecipeInv, NEW w \in PluginWorker, NEW i \in RecipeId, ReadRecipe(w, i)
  PROVE  RecipeInv'
<1> DEFINE o == [does |-> IF recipes[i].source = "plugin" THEN "check" ELSE "run", recipe |-> recipes[i]]
<1>1. recipes[i] # None /\ Become(w, o) /\ UNCHANGED <<disk, recipes>>
  BY DEF ReadRecipe
<1>2. Shipped(recipes[i]) \/ Local(recipes[i])
  BY <1>1 DEF RecipeInv, RecipesFit
<1>3. Local(recipes[i]) => recipes[i].source = "local"
  BY DEF Local, LocalRecipe
<1>4. OpFits(o)
  <2>1. CASE Local(recipes[i])
    <3>1. o = [does |-> "run", recipe |-> recipes[i]]
      BY <1>3, <2>1
    <3> HIDE DEF o
    <3>2. o.does = "run" /\ o.recipe = recipes[i]
      BY <3>1
    <3>3. o = [does |-> o.does, recipe |-> o.recipe]
      BY <3>1, <3>2
    <3>4. RunsRecipe(o)
      BY <3>2, <3>3 DEF RunsRecipe
    <3> QED
      BY <3>4 DEF OpFits
  <2>2. CASE Shipped(recipes[i])
    BY <2>2 DEF OpFits, RunsRecipe
  <2> QED
    BY <1>2, <2>1, <2>2
<1> HIDE DEF o
<1>5. OpsFit'
  BY <1>1, <1>4, Becoming DEF RecipeInv, Become
<1> QED
  BY <1>1, <1>5, RecipeFrame

\* Checks move a request on with the recipe it holds.
LEMMA CheckingTrust ==
  ASSUME RecipeInv, NEW w \in PluginWorker, CheckTrust(w) \/ CompareComponent(w)
  PROVE  RecipeInv'
<1>1. OpFits(pluginOp[w]) /\ pluginOp[w] # None /\ pluginOp[w].does \in {"check", "compare"}
  BY DEF RecipeInv, OpsFit, CheckTrust, CompareComponent, Idle
<1>2. RunsRecipe(pluginOp[w])
  BY <1>1 DEF OpFits, Loads, Installs
<1> DEFINE recipe == pluginOp[w].recipe
           next(d) == [does |-> d, recipe |-> recipe]
<1>3. pluginOp[w] = [does |-> pluginOp[w].does, recipe |-> recipe] /\ Shipped(recipe)
  BY <1>1, <1>2 DEF RunsRecipe
<1>4. \A d : [pluginOp[w] EXCEPT !.does = d] = next(d)
  BY <1>3
<1>5. OpFits(next("compare")) /\ OpFits(next("run")) /\ OpFits(None)
  BY <1>3 DEF OpFits, RunsRecipe
<1>6. Become(w, None) \/ Become(w, next("compare")) \/ Become(w, next("run"))
  BY <1>4 DEF CheckTrust, CompareComponent
<1>7. UNCHANGED <<disk, recipes>>
  BY DEF CheckTrust, CompareComponent
<1> HIDE DEF next
<1>8. OpsFit'
  BY <1>5, <1>6, Becoming DEF RecipeInv, Become
<1> QED
  BY <1>7, <1>8, RecipeFrame

\* Disabling the recipes of a plugin leaves what they run alone.
LEMMA DisablingRecipes ==
  ASSUME RecipeInv, NEW plugin \in Plugin, DisableRecipes(plugin)
  PROVE  RecipeInv'
<1>1. /\ recipes' = [i \in RecipeId |-> recipes'[i]]
      /\ \A i \in RecipeId : \/ recipes'[i] = recipes[i]
                             \/ recipes[i] # None /\ recipes'[i] = [recipes[i] EXCEPT !.status = "disabled"]
  BY DEF DisableRecipes
<1>2. ASSUME NEW recipe, Shipped(recipe) PROVE Shipped([recipe EXCEPT !.status = "disabled"])
  <2> DEFINE other == [recipe EXCEPT !.status = "disabled"]
  <2>1. other = [source |-> "plugin", origin |-> recipe.origin, status |-> "disabled",
                 enabled |-> recipe.enabled, template |-> recipe.origin.content.template]
    BY <1>2 DEF Shipped
  <2> HIDE DEF other
  <2>2. other.origin = recipe.origin /\ other.status = "disabled" /\ other.enabled = recipe.enabled
    BY <2>1
  <2>3. Shipped(other)
    BY <1>2, <2>1, <2>2 DEF Shipped
  <2> QED
    BY <2>3 DEF other
<1>3. \A i \in RecipeId : \/ recipes'[i] = recipes[i]
                         \/ /\ recipes[i] # None /\ recipes[i].source = "plugin"
                            /\ recipes'[i] = [recipes[i] EXCEPT !.status = "disabled"]
  BY DEF DisableRecipes
<1>4. ASSUME NEW recipe, Local(recipe) PROVE recipe.source # "plugin"
  BY <1>4 DEF Local, LocalRecipe
<1>5. ASSUME NEW i \in RecipeId PROVE recipes'[i] = None \/ Shipped(recipes'[i]) \/ Local(recipes'[i])
  <2>1. recipes[i] = None \/ Shipped(recipes[i]) \/ Local(recipes[i])
    BY DEF RecipeInv, RecipesFit
  <2>2. CASE recipes'[i] = recipes[i]
    BY <2>1, <2>2
  <2>3. CASE /\ recipes[i] # None /\ recipes[i].source = "plugin"
             /\ recipes'[i] = [recipes[i] EXCEPT !.status = "disabled"]
    <3>1. Shipped(recipes[i])
      BY <2>1, <2>3, <1>4
    <3> QED
      BY <3>1, <2>3, <1>2
  <2> QED
    BY <1>3, <2>2, <2>3
<1>6. RecipesFit'
  BY <1>1, <1>5 DEF RecipesFit
<1>7. DiskFits' /\ OpsFit'
  BY DEF DisableRecipes, RecipeInv, DiskFits, OpsFit
<1> QED
  BY <1>6, <1>7 DEF RecipeInv

\* Operators store local recipes.
LEMMA StoringLocally ==
  ASSUME RecipeInv, NEW i \in RecipeId, NEW template, NEW enabled,
         CreateRecipe(i, template, enabled) \/ UpdateRecipe(i, template, enabled)
  PROVE  RecipeInv'
<1> DEFINE recipe == LocalRecipe(template, enabled)
<1>1. recipes' = [recipes EXCEPT ![i] = recipe] /\ UNCHANGED <<disk, pluginOp>>
  BY DEF CreateRecipe, UpdateRecipe
<1>2. Local(recipe)
  BY DEF Local, LocalRecipe
<1> HIDE DEF recipe
<1>3. recipes' = [j \in RecipeId |-> recipes'[j]]
  BY <1>1 DEF RecipeInv, RecipesFit
<1>4. \A j \in RecipeId : recipes'[j] = recipes[j] \/ recipes'[j] = recipe
  BY <1>1 DEF RecipeInv, RecipesFit
<1>5. RecipesFit'
  BY <1>2, <1>3, <1>4 DEF RecipeInv, RecipesFit
<1>6. DiskFits' /\ OpsFit'
  BY <1>1 DEF RecipeInv, DiskFits, OpsFit
<1> QED
  BY <1>5, <1>6 DEF RecipeInv

\* Every step of the three services keeps the recipe invariant.
LEMMA RecipeStep ==
  ASSUME RecipeInv, [ServicesNext]_serviceVars
  PROVE  RecipeInv'
<1>1. CASE PluginNext
  <2>1. ASSUME NEW plugin \in Plugin,
               \/ \E m \in Manifest : EditManifest(plugin, m)
               \/ \E path \in PluginPath : \E content \in Contents[path] : EditComponent(plugin, path, content)
        PROVE  RecipeInv'
    <3>1. UNCHANGED <<recipes, pluginOp>>
      BY <2>1 DEF EditManifest, EditComponent
    <3> QED
      BY <2>1, <3>1, Editing
  <2>2. ASSUME NEW plugin \in Plugin, NEW status \in {"trusted", "blocked"},
               DecideTrust(plugin, status) \/ DisableHooks(plugin) \/ DisableReferences(plugin)
        PROVE  RecipeInv'
    <3>1. UNCHANGED <<disk, recipes, pluginOp>>
      BY <2>2 DEF DecideTrust, DisableHooks, DisableReferences
    <3> QED
      BY <3>1 DEF RecipeInv, DiskFits, RecipesFit, OpsFit
  <2>3. ASSUME NEW plugin \in Plugin, DisableRecipes(plugin) PROVE RecipeInv'
    BY <2>3, DisablingRecipes
  <2>4. ASSUME NEW w \in PluginWorker, NEW plugin \in Plugin, NEW kind \in Kind,
               StartInstall(w, plugin, kind)
        PROVE  RecipeInv'
    BY <2>4, StartingInstall
  <2>5. ASSUME NEW w \in PluginWorker, LoadComponents(w) PROVE RecipeInv'
    BY <2>5, LoadingComponents
  <2>6. ASSUME NEW w \in PluginWorker, InstallRecipe(w) PROVE RecipeInv'
    BY <2>6, InstallingRecipe
  <2>7. ASSUME NEW w \in PluginWorker, InstallHook(w) PROVE RecipeInv'
    BY <2>7, InstallingHook
  <2>8. ASSUME NEW w \in PluginWorker, InstallReferences(w) \/ EndInstall(w) \/ RunRecipe(w)
        PROVE  RecipeInv'
    BY <2>8, Ending
  <2>9. ASSUME NEW w \in PluginWorker, CheckTrust(w) \/ CompareComponent(w) PROVE RecipeInv'
    BY <2>9, CheckingTrust
  <2>10. ASSUME NEW w \in PluginWorker, NEW i \in RecipeId, ReadRecipe(w, i) PROVE RecipeInv'
    BY <2>10, ReadingRecipe
  <2>11. ASSUME NEW i \in RecipeId, NEW template \in Template, NEW enabled \in BOOLEAN,
                CreateRecipe(i, template, enabled) \/ UpdateRecipe(i, template, enabled)
         PROVE  RecipeInv'
    BY <2>11, StoringLocally
  <2> QED
    BY <1>1, <2>1, <2>2, <2>3, <2>4, <2>5, <2>6, <2>7, <2>8, <2>9, <2>10, <2>11
    DEF PluginNext, Kind
<1>2. CASE UNCHANGED <<disk, recipes, pluginOp>>
  BY <1>2 DEF RecipeInv, DiskFits, RecipesFit, OpsFit
<1>3. PluginNext \/ UNCHANGED <<disk, recipes, pluginOp>>
  BY DEF ServicesNext, TokenStep, PluginStep, GitStep, EditHooks, serviceVars, pluginVars
<1> QED
  BY <1>1, <1>2, <1>3

\* Only the comparison of the component takes a request out of its wait for it.
LEMMA OnlyCompares ==
  ASSUME RecipeInv, PluginNext, NEW w \in PluginWorker,
         pluginOp[w] # None, pluginOp[w].does = "compare", pluginOp'[w] # pluginOp[w]
  PROVE  CompareComponent(w)
<1>1. ASSUME NEW x, NEW o, Become(x, o), x # w PROVE pluginOp'[w] = pluginOp[w]
  BY <1>1 DEF Become, RecipeInv, OpsFit
<1>2. ASSUME NEW plugin, NEW m, EditManifest(plugin, m) PROVE FALSE
  BY <1>2 DEF EditManifest
<1>3. ASSUME NEW plugin, NEW path, NEW content, EditComponent(plugin, path, content) PROVE FALSE
  BY <1>3 DEF EditComponent
<1>4. ASSUME NEW plugin, NEW status,
             \/ DecideTrust(plugin, status) \/ DisableHooks(plugin) \/ DisableRecipes(plugin)
             \/ DisableReferences(plugin)
      PROVE  FALSE
  BY <1>4 DEF DecideTrust, DisableHooks, DisableRecipes, DisableReferences
<1>5. ASSUME NEW x \in PluginWorker, NEW plugin, NEW kind, StartInstall(x, plugin, kind) PROVE FALSE
  BY <1>1, <1>5 DEF StartInstall, Idle, Become
<1>6. ASSUME NEW x \in PluginWorker, LoadComponents(x) PROVE FALSE
  BY <1>1, <1>6 DEF LoadComponents, Become
<1>7. ASSUME NEW x \in PluginWorker, InstallRecipe(x) \/ InstallHook(x) PROVE FALSE
  BY <1>1, <1>7 DEF InstallRecipe, InstallHook, Become
<1>8. ASSUME NEW x \in PluginWorker, InstallReferences(x) \/ EndInstall(x) \/ RunRecipe(x) PROVE FALSE
  BY <1>1, <1>8 DEF InstallReferences, EndInstall, RunRecipe, Become
<1>9. ASSUME NEW x \in PluginWorker, CheckTrust(x) PROVE FALSE
  BY <1>1, <1>9 DEF CheckTrust, Become
<1>10. ASSUME NEW x \in PluginWorker, NEW i, ReadRecipe(x, i) PROVE FALSE
  BY <1>1, <1>10 DEF ReadRecipe, Idle, Become
<1>11. ASSUME NEW i, NEW template, NEW enabled,
              CreateRecipe(i, template, enabled) \/ UpdateRecipe(i, template, enabled)
       PROVE  FALSE
  BY <1>11 DEF CreateRecipe, UpdateRecipe
<1>12. ASSUME NEW x \in PluginWorker, CompareComponent(x) PROVE x = w
  BY <1>1, <1>12 DEF CompareComponent, Become
<1> QED
  BY <1>2, <1>3, <1>4, <1>5, <1>6, <1>7, <1>8, <1>9, <1>10, <1>11, <1>12 DEF PluginNext

\* A plugin's recipe runs what its file says when it is checked, and its manifest lists
\* that file, whatever was edited, disabled, or installed again in between.
THEOREM RecipesHold == ServicesSpec => RecipesRunAsShipped
<1> DEFINE Runs(w) ==
              pluginOp[w] # None /\ pluginOp[w].does = "compare"
                /\ pluginOp'[w] \notin {None, pluginOp[w]} =>
                  LET r == pluginOp[w].recipe
                      file == disk[r.origin.plugin].holds[r.origin.path]
                      listed == r.origin.manifest["recipes"]
                  IN  /\ r.template = file.template
                      /\ \E n \in DOMAIN listed : listed[n] = r.origin.path
<1>1. ServicesInit => RecipeInv
  BY RecipeInit DEF ServicesInit
<1>2. ASSUME RecipeInv, [ServicesNext]_serviceVars, NEW w \in PluginWorker PROVE Runs(w)
  <2> SUFFICES ASSUME pluginOp[w] # None, pluginOp[w].does = "compare",
                      pluginOp'[w] \notin {None, pluginOp[w]}
               PROVE  LET r == pluginOp[w].recipe
                          file == disk[r.origin.plugin].holds[r.origin.path]
                          listed == r.origin.manifest["recipes"]
                      IN  /\ r.template = file.template
                          /\ \E n \in DOMAIN listed : listed[n] = r.origin.path
    OBVIOUS
  <2>1. PluginNext
    BY <1>2 DEF ServicesNext, TokenStep, PluginStep, GitStep, EditHooks, serviceVars, pluginVars
  <2>2. CompareComponent(w)
    BY <1>2, <2>1, OnlyCompares
  <2>3. OpFits(pluginOp[w])
    BY <1>2 DEF RecipeInv, OpsFit
  <2>4. Shipped(pluginOp[w].recipe)
    BY <2>3 DEF OpFits, Loads, Installs, RunsRecipe
  <2> DEFINE r == pluginOp[w].recipe
             origin == r.origin
  <2>5. /\ r.template = origin.content.template
        /\ \E n \in DOMAIN origin.manifest["recipes"] : origin.manifest["recipes"][n] = origin.path
    BY <2>4 DEF Shipped
  <2>6. disk[origin.plugin].holds[origin.path] = origin.content
    <3>1. disk[origin.plugin].holds[origin.path] # origin.content => Become(w, None)
      BY <2>2 DEF CompareComponent
    <3>2. Become(w, None) => pluginOp'[w] = None
      BY <1>2 DEF Become, RecipeInv, OpsFit
    <3> QED
      BY <3>1, <3>2
  <2> QED
    BY <2>5, <2>6
<1>3. RecipeInv /\ [ServicesNext]_serviceVars => RecipeInv'
  BY RecipeStep
<1>4. RecipeInv /\ [ServicesNext]_serviceVars => [\A w \in PluginWorker : Runs(w)]_serviceVars
  BY <1>2
<1> QED
  BY <1>1, <1>3, <1>4, PTL DEF ServicesSpec, RecipesRunAsShipped
=============================================================================
