--------------------------- MODULE SessionsProofs ---------------------------
(***************************************************************************)
(* Theorems about module Sessions, for every set of connections and        *)
(* accounts.  However often a connection authorizes: type correctness, one *)
(* acting connection per account, that only a dead connection's account is *)
(* released, and, where nobody is banned, that presence announcements pair *)
(* up.  When a connection authorizes once (a second time the session may   *)
(* be stranded, see Sessions_refresh_same_socket.cfg): no user is stranded *)
(* in _users, the username index agrees with _users, and the session code  *)
(* implements module AccountSession.                                       *)
(***************************************************************************)
EXTENDS Sessions, TLAPS

Handoff(c) == pc[c] \in {"notify", "closing"}

\* What a suspended handler knows: the account it logs in, the connection it
\* replaces, and that it heads the queue of that account's login lock.
HandlerInv ==
    \A c \in Clients :
        /\ pc[c] # "idle" => login[c] \in Users
        /\ Handoff(c) => /\ prev[c] \in Clients
                         /\ queue[login[c]] # <<>>
                         /\ Head(queue[login[c]]) = c
        /\ c \in sleeping => uname[c] \in Users

TypeInv == TypeOK /\ HandlerInv

LEMMA TailType ==
    ASSUME NEW S, NEW q \in Seq(S), q # <<>>
    PROVE  Tail(q) \in Seq(S) /\ Head(q) \in S
  OBVIOUS

LEMMA SingletonType ==
    ASSUME NEW S, NEW x \in S
    PROVE  /\ <<x>> \in Seq(S) /\ <<x>> # <<>>
           /\ Head(<<x>>) = x
           /\ Tail(<<x>>) = <<>> /\ Tail(<<x>>) \in Seq(S)
  OBVIOUS

LEMMA AppendType ==
    ASSUME NEW S, NEW q \in Seq(S), NEW x \in S, q # <<>>
    PROVE  /\ Append(q, x) \in Seq(S)
           /\ Append(q, x) # <<>>
           /\ Head(Append(q, x)) = Head(q)
  OBVIOUS

LEMMA TypeInit == Init => TypeInv
  BY BoundAssumption DEF Init, TypeInv, TypeOK, HandlerInv, Handoff, Trust

\* The effects of taking the login lock, whether a handler finds it free or
\* was waiting for it: common to Verified, TokenLogin and LockGranted.
Attaching(c, u, r, rest) ==
    /\ rest \in Seq(Clients) /\ rest # <<>> /\ Head(rest) = c
    /\ \A d \in Clients : Handoff(d) => login[d] # u
    /\ login' = [login EXCEPT ![c] = u]
    /\ Attach(c, u, r, rest)

LEMMA AttachTypes ==
    ASSUME TypeInv, NEW c \in Clients, NEW u \in Users, NEW r \in Trust, NEW rest,
           Attaching(c, u, r, rest),
           sock' \in [Clients -> {"new", "open", "closed", "gone"}],
           auths' \in [Clients -> 0..MaxAuth],
           rec' \in [Clients -> Trust],
           UNCHANGED <<db, ban, heard>>
    PROVE  TypeInv'
  <1> USE DEF TypeInv, Attaching
  <1>1. CASE users[u] \in Clients
    <2>1. /\ replaced' = [replaced EXCEPT ![users[u]] = TRUE]
          /\ prev' = [prev EXCEPT ![c] = users[u]]
          /\ pc' = [pc EXCEPT ![c] = "notify"]
          /\ queue' = [queue EXCEPT ![u] = rest]
          /\ UNCHANGED <<uname, fresh, index, users, trust>>
          /\ pending' = [pending EXCEPT ![u] = None]
          /\ sleeping' = sleeping \ {pending[u]}
      BY <1>1 DEF Attach
    <2>2. TypeOK'
      BY <1>1, <2>1 DEF TypeOK
    <2>3. HandlerInv'
      BY <1>1, <2>1 DEF HandlerInv, TypeOK, Handoff
    <2> QED BY <2>2, <2>3
  <1>2. CASE users[u] \notin Clients
    <2>1. /\ uname' = [uname EXCEPT ![c] = u]
          /\ index' = [index EXCEPT ![u] = c]
          /\ users' = [users EXCEPT ![u] = c]
          /\ trust' = [trust EXCEPT ![u] = r]
          /\ fresh' = [fresh EXCEPT ![c] = TRUE]
          /\ pc' = [pc EXCEPT ![c] = "sending"]
          /\ queue' = [queue EXCEPT ![u] = Tail(rest)]
          /\ UNCHANGED <<replaced, prev>>
          /\ pending' = [pending EXCEPT ![u] = None]
          /\ sleeping' = sleeping \ {pending[u]}
      BY <1>2 DEF Attach
    <2>2. Tail(rest) \in Seq(Clients)
      BY TailType
    <2>3. TypeOK'
      BY <2>1, <2>2 DEF TypeOK
    <2>4. HandlerInv'
      BY <2>1 DEF HandlerInv, TypeOK, Handoff
    <2> QED BY <2>3, <2>4
  <1> QED BY <1>1, <1>2

LEMMA FinalizeTypes ==
    ASSUME TypeInv, NEW c \in Clients, NEW u \in Users,
           pc[c] \in {"idle", "verify"},
           Finalize(c, u),
           sock' \in [Clients -> {"new", "open", "closed", "gone"}],
           auths' \in [Clients -> 0..MaxAuth],
           UNCHANGED <<db, ban, heard>>
    PROVE  TypeInv'
  <1>1. /\ login' = [login EXCEPT ![c] = u]
        /\ rec' = [rec EXCEPT ![c] = db[u]]
        /\ rec' \in [Clients -> Trust]
        /\ db[u] \in Trust
    BY DEF Finalize, TypeInv, TypeOK
  <1>2. CASE queue[u] = <<>>
    <2>1. \A d \in Clients : Handoff(d) => login[d] # u
      BY <1>2 DEF TypeInv, HandlerInv
    <2>2. Attaching(c, u, db[u], <<c>>)
      BY <1>1, <1>2, <2>1, SingletonType DEF Finalize, Attaching
    <2> QED BY <1>1, <2>2, AttachTypes
  <1>3. CASE queue[u] # <<>>
    <2>1. /\ queue' = [queue EXCEPT ![u] = Append(queue[u], c)]
          /\ pc' = [pc EXCEPT ![c] = "wait"]
          /\ UNCHANGED <<uname, replaced, fresh, prev, index, users, pending,
                         sleeping, trust>>
      BY <1>3 DEF Finalize
    <2>2. queue[u] \in Seq(Clients)
      BY DEF TypeInv, TypeOK
    <2>3. /\ Append(queue[u], c) \in Seq(Clients)
          /\ Append(queue[u], c) # <<>>
          /\ Head(Append(queue[u], c)) = Head(queue[u])
      BY <1>3, <2>2, AppendType
    <2>4. TypeOK'
      BY <1>1, <2>1, <2>3 DEF TypeInv, TypeOK
    <2>5. HandlerInv'
      BY <1>1, <2>1, <2>3 DEF TypeInv, HandlerInv, TypeOK, Handoff
    <2> QED BY <2>4, <2>5 DEF TypeInv
  <1> QED BY <1>2, <1>3

LEMMA LockGrantedTypes ==
    ASSUME TypeInv, NEW c \in Clients, LockGranted(c)
    PROVE  TypeInv'
  <1> DEFINE u == login[c]
  <1>1. u \in Users /\ rec[c] \in Trust /\ queue[u] \in Seq(Clients)
    BY DEF LockGranted, TypeInv, HandlerInv, TypeOK
  <1>2. \A d \in Clients : Handoff(d) => login[d] # u
    BY DEF LockGranted, TypeInv, HandlerInv, Handoff
  <1>3. login' = [login EXCEPT ![c] = u]
    BY DEF LockGranted, TypeInv, TypeOK
  <1>4. Attaching(c, u, rec[c], queue[u])
    BY <1>1, <1>2, <1>3 DEF LockGranted, Attaching
  <1>5. UNCHANGED <<db, ban, heard, sock, auths, rec>>
    BY DEF LockGranted
  <1> QED
    BY <1>1, <1>4, <1>5, AttachTypes DEF TypeInv, TypeOK

LEMMA RebindTypes ==
    ASSUME TypeInv, NEW c \in Clients, Rebind(c)
    PROVE  TypeInv'
  <1> DEFINE u == login[c]
  <1>1. /\ pc[c] = "closing"
        /\ u \in Users /\ queue[u] \in Seq(Clients) /\ queue[u] # <<>>
        /\ Head(queue[u]) = c
    BY DEF Rebind, TypeInv, HandlerInv, TypeOK, Handoff
  <1>2. Tail(queue[u]) \in Seq(Clients)
    BY <1>1, TailType
  <1>3. TypeOK'
    BY <1>1, <1>2 DEF Rebind, TypeInv, TypeOK
  <1>4. HandlerInv'
    BY <1>1 DEF Rebind, TypeInv, HandlerInv, TypeOK, Handoff
  <1> QED BY <1>3, <1>4 DEF TypeInv

LEMMA TypeStep == TypeInv /\ [Next]_vars => TypeInv'
  <1> SUFFICES ASSUME TypeInv, [Next]_vars PROVE TypeInv'
    OBVIOUS
  <1> USE DEF connVars, handlerVars, serverVars, accountVars
  <1>1. ASSUME NEW c \in Clients, Connect(c) \/ SocketCloses(c) \/ AuthTimeout(c)
        PROVE  TypeInv'
    <2>1. /\ \E s \in {"open", "closed"} : sock' = [sock EXCEPT ![c] = s]
          /\ UNCHANGED <<uname, replaced, auths, handlerVars, serverVars, accountVars>>
      BY <1>1 DEF Connect, SocketCloses, AuthTimeout
    <2>2. TypeOK'
      BY <2>1 DEF TypeInv, TypeOK
    <2>3. HandlerInv'
      BY <2>1 DEF TypeInv, HandlerInv, Handoff
    <2> QED BY <2>2, <2>3 DEF TypeInv
  <1>2. ASSUME NEW c \in Clients, HandlerEnds(c)
        PROVE  TypeInv'
    <2>1. index' \in [Users -> Clients \cup {None}]
      BY <1>2 DEF HandlerEnds, TypeInv, TypeOK
    <2>2. OwnsSession(c) => uname[c] \in Users
      BY DEF OwnsSession, TypeInv, TypeOK
    <2>3. /\ pending' \in [Users -> Clients \cup {None}]
          /\ sleeping' \subseteq Clients
          /\ \A d \in sleeping' : uname[d] \in Users
      <3>1. CASE OwnsSession(c)
        <4>1. /\ pending' = [pending EXCEPT ![uname[c]] = c]
              /\ sleeping' = sleeping \cup {c}
          BY <1>2, <3>1 DEF HandlerEnds
        <4>2. uname[c] \in Users
          BY <2>2, <3>1
        <4> QED BY <4>1, <4>2 DEF TypeInv, TypeOK, HandlerInv
      <3>2. CASE ~OwnsSession(c)
        BY <1>2, <3>2 DEF HandlerEnds, TypeInv, TypeOK, HandlerInv
      <3> QED BY <3>1, <3>2
    <2>4. TypeOK'
      BY <1>2, <2>1, <2>3 DEF HandlerEnds, TypeInv, TypeOK
    <2>5. HandlerInv'
      BY <1>2, <2>3 DEF HandlerEnds, TypeInv, HandlerInv, Handoff
    <2> QED BY <2>4, <2>5 DEF TypeInv
  <1>3. ASSUME NEW c \in Clients, NEW u \in Users, PasswordLogin(c, u)
        PROVE  TypeInv'
    <2>1. auths' \in [Clients -> 0..MaxAuth]
      BY <1>3, BoundAssumption DEF PasswordLogin, TypeInv, TypeOK
    <2>2. QED
      BY <1>3, <2>1 DEF PasswordLogin, Reading, TypeInv, TypeOK, HandlerInv, Handoff
  <1>4. ASSUME NEW c \in Clients, NEW u \in Users, TokenLogin(c, u)
        PROVE  TypeInv'
    <2>1. auths' \in [Clients -> 0..MaxAuth]
      BY <1>4, BoundAssumption DEF TokenLogin, TypeInv, TypeOK
    <2>2. QED
      BY <1>4, <2>1, FinalizeTypes DEF TokenLogin, Reading, TypeInv, TypeOK
  <1>5. ASSUME NEW c \in Clients, Verified(c)
        PROVE  TypeInv'
    <2>1. login[c] \in Users
      BY <1>5 DEF Verified, TypeInv, HandlerInv
    <2>2. QED
      BY <1>5, <2>1, FinalizeTypes DEF Verified, TypeInv, TypeOK
  <1>6. ASSUME NEW c \in Clients, Refused(c)
        PROVE  TypeInv'
    BY <1>6 DEF Refused, TypeInv, TypeOK, HandlerInv, Handoff
  <1>13. ASSUME NEW c \in Clients, OldNotified(c)
        PROVE  TypeInv'
    <2>1. TypeOK'
      BY <1>13 DEF OldNotified, TypeInv, TypeOK
    <2>2. HandlerInv'
      BY <1>13 DEF OldNotified, TypeInv, TypeOK, HandlerInv, Handoff
    <2> QED BY <2>1, <2>2 DEF TypeInv
  <1>7. ASSUME NEW c \in Clients, LoginDone(c)
        PROVE  TypeInv'
    BY <1>7 DEF LoginDone, TypeInv, TypeOK, HandlerInv, Handoff
  <1>8. ASSUME NEW c \in Clients, GraceExpires(c)
        PROVE  TypeInv'
    <2>1. uname[c] \in Users /\ heard[uname[c]] \in Int
      BY <1>8 DEF GraceExpires, TypeInv, TypeOK, HandlerInv
    <2>2. TypeOK'
      <3>1. CASE users[uname[c]] \in {None, c}
        <4>1. users' = [users EXCEPT ![uname[c]] = None]
          BY <1>8, <3>1 DEF GraceExpires
        <4>2. heard' \in [Users -> Int]
          BY <1>8, <2>1, <3>1 DEF GraceExpires, TypeInv, TypeOK
        <4>3. ban' = [ban EXCEPT ![uname[c]] = IF ban[uname[c]] = "sending" THEN "done"
                                               ELSE ban[uname[c]]]
          BY <1>8, <3>1 DEF GraceExpires
        <4>4. ban' \in [Users -> {"no", "sending", "done"}]
          BY <4>3 DEF TypeInv, TypeOK
        <4> QED BY <1>8, <4>1, <4>2, <4>4 DEF GraceExpires, TypeInv, TypeOK
      <3>2. CASE users[uname[c]] \notin {None, c}
        BY <1>8, <3>2 DEF GraceExpires, TypeInv, TypeOK
      <3> QED BY <3>1, <3>2
    <2>3. HandlerInv'
      BY <1>8 DEF GraceExpires, TypeInv, TypeOK, HandlerInv, Handoff
    <2> QED BY <2>2, <2>3 DEF TypeInv
  <1>9. ASSUME NEW u \in Users, Ban(u)
        PROVE  TypeInv'
    <2>1. TypeOK'
      <3>1. UNCHANGED <<connVars, handlerVars, serverVars, heard>>
        BY <1>9 DEF Ban
      <3>2. db' \in [Users -> Trust]
        BY <1>9 DEF Ban, TypeInv, TypeOK, Trust
      <3>3. trust' \in [Users -> Trust]
        <4>1. trust' \in {trust, [trust EXCEPT ![u] = "banned"]}
          BY <1>9 DEF Ban
        <4>2. trust \in [Users -> Trust] /\ "banned" \in Trust
          BY DEF TypeInv, TypeOK, Trust
        <4> QED BY <4>1, <4>2
      <3>4. ban' \in [Users -> {"no", "sending", "done"}]
        BY <1>9 DEF Ban, TypeInv, TypeOK
      <3> QED BY <3>1, <3>2, <3>3, <3>4 DEF TypeInv, TypeOK
    <2>2. HandlerInv'
      BY <1>9 DEF Ban, TypeInv, HandlerInv, Handoff
    <2> QED BY <2>1, <2>2 DEF TypeInv
  <1>12. ASSUME NEW u \in Users, BanCloses(u)
        PROVE  TypeInv'
    BY <1>12 DEF BanCloses, TypeInv, TypeOK, HandlerInv, Handoff
  <1>10. ASSUME NEW u \in Users, BotOnline(u) \/ BotOffline(u)
        PROVE  TypeInv'
    <2>1. /\ \E x \in {Bot, None} : users' = [users EXCEPT ![u] = x]
          /\ UNCHANGED <<connVars, handlerVars, index, pending, sleeping, queue, accountVars>>
      BY <1>10 DEF BotOnline, BotOffline
    <2>2. TypeOK'
      BY <2>1 DEF TypeInv, TypeOK
    <2>3. HandlerInv'
      BY <2>1 DEF TypeInv, HandlerInv, Handoff
    <2> QED BY <2>2, <2>3 DEF TypeInv
  <1>11. CASE UNCHANGED vars
    BY <1>11 DEF vars, TypeInv, TypeOK, HandlerInv, Handoff
  <1> QED
    BY <1>1, <1>2, <1>3, <1>4, <1>5, <1>6, <1>7, <1>8, <1>9, <1>10, <1>11, <1>12, <1>13,
       LockGrantedTypes, RebindTypes DEF Next, ServerStep

\* Every variable keeps its type, whatever the connections do and however
\* many auth packets they send.
THEOREM TypeCorrect == Spec => []TypeOK
  <1>1. Spec => []TypeInv
    BY TypeInit, TypeStep, PTL DEF Spec
  <1>2. TypeInv => TypeOK
    BY DEF TypeInv
  <1> QED BY <1>1, <1>2, PTL
-----------------------------------------------------------------------------
(* However often connections authorize.                                    *)

\* Handlers run on registered sockets; nothing knows a socket before it is
\* accepted.
AliveInv ==
    \A c \in Clients :
        /\ pc[c] # "idle" => sock[c] \in {"open", "closed"}
        /\ sock[c] = "new" => uname[c] = None /\ \A u \in Users : users[u] # c

\* A registered connection that was not replaced is the one its account's user
\* object is bound to.
ActInv ==
    \A c \in Clients :
        sock[c] \in {"open", "closed"} /\ uname[c] # None /\ ~replaced[c]
            => users[uname[c]] = c

\* A grace period runs for a dead connection that still owns its account, and
\* can be cancelled.
GraceInv ==
    \A c \in sleeping :
        sock[c] = "gone" /\ users[uname[c]] = c /\ pending[uname[c]] = c

\* During a handoff the user object stays bound to the replaced connection,
\* and no grace period of the account runs.
TakeInv ==
    \A c \in Clients :
        /\ Handoff(c) => /\ users[login[c]] = prev[c]
                         /\ replaced[prev[c]]
                         /\ pending[login[c]] = None
        /\ pc[c] = "closing" => sock[prev[c]] # "open"

AccountInv == AliveInv /\ ActInv /\ GraceInv /\ TakeInv

LEMMA AttachAccount ==
    ASSUME TypeInv, AccountInv, NEW c \in Clients, NEW u \in Users, NEW r, NEW rest,
           Attaching(c, u, r, rest), pc[c] \in {"idle", "verify", "wait"},
           sock[c] \in {"open", "closed"}, sock' = sock
    PROVE  AccountInv'
  <1>1. /\ pending' = [pending EXCEPT ![u] = None]
        /\ sleeping' = sleeping \ {pending[u]}
        /\ login' = [login EXCEPT ![c] = u]
        /\ \A d \in Clients : Handoff(d) => login[d] # u
    BY DEF Attaching, Attach
  <1>2. /\ uname \in [Clients -> Users \cup {None}]
        /\ users \in [Users -> Clients \cup {None, Bot}]
        /\ replaced \in [Clients -> BOOLEAN]
        /\ prev \in [Clients -> Clients \cup {None}]
        /\ pending \in [Users -> Clients \cup {None}] /\ sleeping \subseteq Clients
        /\ login \in [Clients -> Users \cup {None}]
        /\ pc \in [Clients -> {"idle", "verify", "wait", "notify", "closing", "sending"}]
        /\ None \notin Clients /\ None \notin Users /\ u # None
    BY IdentityAssumption DEF TypeInv, TypeOK
  <1>3. /\ \A d \in sleeping' : /\ d \in sleeping /\ d # c /\ uname[d] \in Users
                                /\ uname[d] # u
        /\ \A d \in Clients : Handoff(d) => /\ d # c /\ login[d] \in Users /\ login[d] # u
                                            /\ prev[d] \in Clients
    BY <1>1, <1>2 DEF AccountInv, GraceInv, TypeInv, HandlerInv, Handoff
  <1>4. CASE users[u] \in Clients
    <2>1. /\ replaced' = [replaced EXCEPT ![users[u]] = TRUE]
          /\ prev' = [prev EXCEPT ![c] = users[u]]
          /\ pc' = [pc EXCEPT ![c] = "notify"]
          /\ UNCHANGED <<uname, users>>
      BY <1>4 DEF Attaching, Attach
    <2>2. AliveInv'
      BY <1>2, <2>1 DEF AccountInv, AliveInv
    <2>3. ActInv'
      BY <1>2, <1>4, <2>1 DEF AccountInv, ActInv
    <2>4. GraceInv'
      BY <1>1, <1>2, <1>3, <2>1 DEF AccountInv, GraceInv
    <2>5. TakeInv'
      BY <1>1, <1>2, <1>3, <1>4, <2>1 DEF AccountInv, TakeInv, Handoff
    <2> QED BY <2>2, <2>3, <2>4, <2>5 DEF AccountInv
  <1>5. CASE users[u] \notin Clients
    <2>1. /\ uname' = [uname EXCEPT ![c] = u]
          /\ users' = [users EXCEPT ![u] = c]
          /\ pc' = [pc EXCEPT ![c] = "sending"]
          /\ UNCHANGED <<replaced, prev>>
      BY <1>5 DEF Attaching, Attach
    <2>2. AliveInv'
      BY <1>2, <2>1 DEF AccountInv, AliveInv
    <2>3. ActInv'
      BY <1>2, <1>5, <2>1 DEF AccountInv, ActInv
    <2>4. GraceInv'
      BY <1>1, <1>2, <1>3, <2>1 DEF AccountInv, GraceInv
    <2>5. TakeInv'
      BY <1>1, <1>2, <1>3, <2>1 DEF AccountInv, TakeInv, Handoff
    <2> QED BY <2>2, <2>3, <2>4, <2>5 DEF AccountInv
  <1> QED BY <1>4, <1>5

LEMMA RebindAccount ==
    ASSUME TypeInv, AccountInv, NEW c \in Clients, Rebind(c)
    PROVE  AccountInv'
  <1> DEFINE u == login[c]
  <1>1. /\ pc[c] = "closing" /\ u \in Users /\ prev[c] \in Clients
        /\ users[u] = prev[c] /\ replaced[prev[c]] /\ pending[u] = None
        /\ sock[c] \in {"open", "closed"}
        /\ None \notin Users /\ None \notin Clients
    BY IdentityAssumption
    DEF Rebind, TypeInv, HandlerInv, Handoff, AccountInv, AliveInv, TakeInv
  <1>2. /\ uname' = [uname EXCEPT ![c] = u]
        /\ users' = [users EXCEPT ![u] = c]
        /\ pc' = [pc EXCEPT ![c] = "sending"]
        /\ UNCHANGED <<sock, replaced, login, prev, pending, sleeping>>
    BY <1>1 DEF Rebind
  <1>3. /\ uname \in [Clients -> Users \cup {None}]
        /\ users \in [Users -> Clients \cup {None, Bot}]
        /\ sleeping \subseteq Clients
        /\ pc \in [Clients -> {"idle", "verify", "wait", "notify", "closing", "sending"}]
    BY DEF TypeInv, TypeOK
  <1>4. /\ \A d \in sleeping : d # c /\ uname[d] \in Users /\ uname[d] # u
        /\ \A d \in Clients : Handoff(d) /\ d # c => login[d] \in Users /\ login[d] # u
    BY <1>1, <1>3 DEF AccountInv, GraceInv, TypeInv, HandlerInv, Handoff
  <1>5. AliveInv'
    BY <1>1, <1>2, <1>3 DEF AccountInv, AliveInv
  <1>6. ActInv'
    BY <1>1, <1>2, <1>3 DEF AccountInv, ActInv
  <1>7. GraceInv'
    BY <1>2, <1>3, <1>4 DEF AccountInv, GraceInv
  <1>8. TakeInv'
    BY <1>2, <1>3, <1>4 DEF AccountInv, TakeInv, Handoff
  <1> QED BY <1>5, <1>6, <1>7, <1>8 DEF AccountInv

LEMMA HandlerEndsAccount ==
    ASSUME TypeInv, AccountInv, NEW c \in Clients, HandlerEnds(c)
    PROVE  AccountInv'
  <1>1. /\ sock[c] = "closed" /\ pc[c] = "idle"
        /\ sock' = [sock EXCEPT ![c] = "gone"]
        /\ UNCHANGED <<uname, replaced, pc, login, prev, users>>
    BY DEF HandlerEnds, handlerVars
  <1>2. /\ sock \in [Clients -> {"new", "open", "closed", "gone"}]
        /\ uname \in [Clients -> Users \cup {None}]
        /\ pending \in [Users -> Clients \cup {None}] /\ sleeping \subseteq Clients
        /\ None \notin Users /\ None \notin Clients
    BY IdentityAssumption DEF TypeInv, TypeOK
  <1>3. AliveInv' /\ ActInv'
    BY <1>1, <1>2 DEF AccountInv, AliveInv, ActInv
  <1>4. \A d \in Clients : pc[d] = "closing" => sock'[prev[d]] # "open"
    BY <1>1, <1>2 DEF AccountInv, TakeInv, TypeInv, HandlerInv, Handoff
  <1>5. CASE OwnsSession(c)
    <2>1. /\ uname[c] \in Users /\ users[uname[c]] = c /\ ~replaced[c]
          /\ pending' = [pending EXCEPT ![uname[c]] = c]
          /\ sleeping' = sleeping \cup {c}
      BY <1>1, <1>2, <1>5 DEF HandlerEnds, OwnsSession, AccountInv, ActInv
    <2>2. \A d \in sleeping : d # c /\ uname[d] \in Users /\ uname[d] # uname[c]
      BY <1>1, <1>2, <2>1 DEF AccountInv, GraceInv, TypeInv, HandlerInv
    <2>5. ASSUME NEW d \in Clients, Handoff(d)
          PROVE  login[d] \in Users /\ login[d] # uname[c]
      <3>1. login[d] \in Users
        BY <2>5 DEF TypeInv, HandlerInv, Handoff
      <3>2. users[login[d]] = prev[d] /\ replaced[prev[d]]
        BY <2>5 DEF AccountInv, TakeInv
      <3> QED BY <2>1, <3>1, <3>2
    <2>3. GraceInv'
      BY <1>1, <1>2, <2>1, <2>2 DEF AccountInv, GraceInv
    <2>4. TakeInv'
      BY <1>1, <1>2, <1>4, <2>1, <2>5 DEF AccountInv, TakeInv, Handoff
    <2> QED BY <1>3, <2>3, <2>4 DEF AccountInv
  <1>6. CASE ~OwnsSession(c)
    <2>1. UNCHANGED <<pending, sleeping>>
      BY <1>6 DEF HandlerEnds
    <2>2. GraceInv' /\ TakeInv'
      BY <1>1, <1>2, <1>4, <2>1 DEF AccountInv, GraceInv, TakeInv, Handoff
    <2> QED BY <1>3, <2>2 DEF AccountInv
  <1> QED BY <1>5, <1>6

LEMMA GraceExpiresAccount ==
    ASSUME TypeInv, AccountInv, NEW c \in Clients, GraceExpires(c)
    PROVE  AccountInv'
  <1> DEFINE u == uname[c]
  <1>1. /\ c \in sleeping /\ u \in Users /\ users[u] = c
        /\ sock[c] = "gone" /\ pending[u] = c
        /\ None \notin Users /\ None \notin Clients
    BY IdentityAssumption DEF GraceExpires, TypeInv, HandlerInv, AccountInv, GraceInv
  <1>2. /\ sleeping' = sleeping \ {c}
        /\ pending' = [pending EXCEPT ![u] = None]
        /\ users' = [users EXCEPT ![u] = None]
        /\ UNCHANGED <<sock, uname, replaced, pc, login, prev>>
    BY <1>1 DEF GraceExpires, connVars, handlerVars
  <1>3. /\ users \in [Users -> Clients \cup {None, Bot}]
        /\ uname \in [Clients -> Users \cup {None}]
        /\ pending \in [Users -> Clients \cup {None}] /\ sleeping \subseteq Clients
        /\ c \in Clients
    BY DEF TypeInv, TypeOK
  <1>4. \A d \in sleeping' : d \in sleeping /\ uname[d] \in Users /\ uname[d] # u
    BY <1>1, <1>2, <1>3 DEF AccountInv, GraceInv, TypeInv, HandlerInv
  <1>8. ASSUME NEW d \in Clients, Handoff(d)
        PROVE  login[d] \in Users /\ login[d] # u
    <2>1. login[d] \in Users
      BY <1>8 DEF TypeInv, HandlerInv, Handoff
    <2>2. pending[login[d]] = None
      BY <1>8 DEF AccountInv, TakeInv
    <2> QED BY <1>1, <1>3, <2>1, <2>2
  <1>5. AliveInv' /\ ActInv'
    BY <1>1, <1>2, <1>3 DEF AccountInv, AliveInv, ActInv
  <1>6. GraceInv'
    BY <1>2, <1>3, <1>4 DEF AccountInv, GraceInv
  <1>7. TakeInv'
    BY <1>2, <1>3, <1>8 DEF AccountInv, TakeInv, Handoff
  <1> QED BY <1>5, <1>6, <1>7 DEF AccountInv

\* Steps that change sockets only: a socket opens, or is closed while its
\* handler goes on, or an "already logged in" packet is out.
LEMMA SocketStepAccount ==
    ASSUME TypeInv, AccountInv,
           UNCHANGED <<uname, replaced, login, prev, users, pending, sleeping>>,
           \A c \in Clients : \/ sock'[c] = sock[c]
                              \/ sock[c] \in {"open", "new"} /\ sock'[c] \in {"open", "closed"},
           \A c \in Clients : /\ pc'[c] = pc[c] \/ (pc[c] = "notify" /\ pc'[c] = "closing")
                              /\ pc'[c] = "closing" => sock'[prev[c]] # "open"
    PROVE  AccountInv'
  <1>1. AliveInv' /\ ActInv'
    BY DEF AccountInv, AliveInv, ActInv
  <1>2. GraceInv'
    BY DEF AccountInv, GraceInv, TypeInv, TypeOK
  <1>3. TakeInv'
    BY DEF AccountInv, TakeInv, Handoff
  <1> QED BY <1>1, <1>2, <1>3 DEF AccountInv

\* Steps of a handler that is not handing over, neither before nor after.
LEMMA HandlerStepAccount ==
    ASSUME TypeInv, AccountInv, NEW c \in Clients,
           UNCHANGED <<sock, uname, replaced, prev, users, pending, sleeping>>,
           \A d \in Clients \ {c} : pc'[d] = pc[d] /\ login'[d] = login[d],
           pc'[c] \notin {"notify", "closing"},
           pc'[c] # "idle" => sock[c] \in {"open", "closed"}
    PROVE  AccountInv'
  <1>1. AliveInv' /\ ActInv' /\ GraceInv'
    BY DEF AccountInv, AliveInv, ActInv, GraceInv
  <1>2. TakeInv'
    BY DEF AccountInv, TakeInv, Handoff
  <1> QED BY <1>1, <1>2 DEF AccountInv

LEMMA FinalizeAccount ==
    ASSUME TypeInv, AccountInv, NEW c \in Clients, NEW u \in Users,
           pc[c] \in {"idle", "verify"}, Finalize(c, u),
           sock[c] \in {"open", "closed"}, sock' = sock
    PROVE  AccountInv'
  <1>1. login' = [login EXCEPT ![c] = u]
    BY DEF Finalize
  <1>2. CASE queue[u] = <<>>
    <2>1. \A d \in Clients : Handoff(d) => login[d] # u
      BY <1>2 DEF TypeInv, HandlerInv
    <2>2. Attaching(c, u, db[u], <<c>>)
      BY <1>1, <1>2, <2>1, SingletonType DEF Finalize, Attaching
    <2> QED BY <2>2, AttachAccount
  <1>3. CASE queue[u] # <<>>
    <2>1. /\ pc' = [pc EXCEPT ![c] = "wait"]
          /\ UNCHANGED <<uname, replaced, prev, users, pending, sleeping>>
      BY <1>3 DEF Finalize
    <2>2. /\ \A d \in Clients \ {c} : pc'[d] = pc[d] /\ login'[d] = login[d]
          /\ pc'[c] = "wait"
      BY <1>1, <2>1 DEF TypeInv, TypeOK
    <2> QED BY <2>1, <2>2, HandlerStepAccount
  <1> QED BY <1>2, <1>3

LEMMA LockGrantedAttaches ==
    ASSUME TypeInv, NEW c \in Clients, LockGranted(c)
    PROVE  login[c] \in Users /\ Attaching(c, login[c], rec[c], queue[login[c]])
  <1>1. login[c] \in Users /\ queue[login[c]] \in Seq(Clients)
    BY DEF LockGranted, TypeInv, HandlerInv, TypeOK
  <1>2. \A d \in Clients : Handoff(d) => login[d] # login[c]
    BY DEF LockGranted, TypeInv, HandlerInv, Handoff
  <1>3. login' = [login EXCEPT ![c] = login[c]]
    BY DEF LockGranted, TypeInv, TypeOK
  <1> QED BY <1>1, <1>2, <1>3 DEF LockGranted, Attaching

LEMMA BotAccount ==
    ASSUME TypeInv, AccountInv, NEW u \in Users, BotOnline(u) \/ BotOffline(u)
    PROVE  AccountInv'
  <1>1. /\ users[u] \notin Clients
        /\ users' \in {[users EXCEPT ![u] = Bot], [users EXCEPT ![u] = None]}
        /\ UNCHANGED <<sock, uname, replaced, pc, login, prev, pending, sleeping>>
        /\ users \in [Users -> Clients \cup {None, Bot}]
        /\ uname \in [Clients -> Users \cup {None}]
    BY IdentityAssumption
    DEF BotOnline, BotOffline, connVars, handlerVars, TypeInv, TypeOK
  <1>2. \A v \in Users : users[v] \in Clients => users'[v] = users[v]
    BY <1>1
  <1>3. \A v \in Users : users'[v] \in Clients => users'[v] = users[v]
    BY <1>1, IdentityAssumption
  <1>6. AliveInv'
    BY <1>1, <1>3 DEF AccountInv, AliveInv
  <1>7. ActInv'
    BY <1>1, <1>2 DEF AccountInv, ActInv
  <1>4. GraceInv'
    BY <1>1, <1>2 DEF AccountInv, GraceInv, TypeInv, TypeOK, HandlerInv
  <1>5. TakeInv'
    BY <1>1, <1>2 DEF AccountInv, TakeInv, TypeInv, HandlerInv, Handoff
  <1> QED BY <1>4, <1>5, <1>6, <1>7 DEF AccountInv

LEMMA AccountInit == Init => AccountInv
  BY IdentityAssumption DEF Init, AccountInv, AliveInv, ActInv, GraceInv, TakeInv, Handoff

LEMMA AccountStep ==
    ASSUME TypeInv, AccountInv, [Next]_vars
    PROVE  AccountInv'
  <1> USE DEF connVars, handlerVars, serverVars, accountVars
  <1>1. ASSUME NEW c \in Clients, Connect(c) \/ SocketCloses(c) \/ AuthTimeout(c)
        PROVE  AccountInv'
    <2>1. ASSUME NEW d \in Clients, pc[d] = "closing"
          PROVE  prev[d] \in Clients /\ sock[prev[d]] \notin {"open", "new"}
      <3>1. prev[d] \in Clients /\ login[d] \in Users
        BY <2>1 DEF TypeInv, HandlerInv, Handoff
      <3>2. users[login[d]] = prev[d] /\ sock[prev[d]] # "open"
        BY <2>1 DEF AccountInv, TakeInv, Handoff
      <3> QED BY <3>1, <3>2 DEF AccountInv, AliveInv
    <2>2. /\ \A d \in Clients : sock'[d] = sock[d] \/
                (sock[d] \in {"open", "new"} /\ sock'[d] \in {"open", "closed"})
          /\ \A d \in Clients : pc'[d] = "closing" => sock'[prev[d]] # "open"
      BY <1>1, <2>1 DEF Connect, SocketCloses, AuthTimeout, TypeInv, TypeOK
    <2> QED BY <1>1, <2>2, SocketStepAccount DEF Connect, SocketCloses, AuthTimeout
  <1>2. ASSUME NEW c \in Clients, OldNotified(c)
        PROVE  AccountInv'
    <2>1. prev[c] \in Clients
      BY <1>2 DEF OldNotified, TypeInv, HandlerInv, Handoff
    <2>2. /\ \A d \in Clients : sock'[d] = sock[d] \/
                (sock[d] \in {"open", "new"} /\ sock'[d] \in {"open", "closed"})
          /\ sock'[prev[c]] # "open"
          /\ \A d \in Clients : sock[d] # "open" => sock'[d] # "open"
      BY <1>2, <2>1 DEF OldNotified, TypeInv, TypeOK
    <2>3. \A d \in Clients : /\ pc'[d] = pc[d] \/ (pc[d] = "notify" /\ pc'[d] = "closing")
                             /\ pc'[d] = "closing" => d = c \/ pc[d] = "closing"
      BY <1>2 DEF OldNotified, TypeInv, TypeOK
    <2>4. \A d \in Clients : pc[d] = "closing" => prev[d] \in Clients /\ sock[prev[d]] # "open"
      BY DEF AccountInv, TakeInv, TypeInv, HandlerInv, Handoff
    <2> QED BY <1>2, <2>2, <2>3, <2>4, SocketStepAccount DEF OldNotified
  <1>3. ASSUME NEW c \in Clients, NEW u \in Users, PasswordLogin(c, u)
        PROVE  AccountInv'
    <2>1. /\ \A d \in Clients \ {c} : pc'[d] = pc[d] /\ login'[d] = login[d]
          /\ pc'[c] = "verify" /\ sock[c] \in {"open", "closed"}
      BY <1>3 DEF PasswordLogin, Reading, TypeInv, TypeOK
    <2> QED BY <1>3, <2>1, HandlerStepAccount DEF PasswordLogin
  <1>4. ASSUME NEW c \in Clients, NEW u \in Users, TokenLogin(c, u)
        PROVE  AccountInv'
    BY <1>4, FinalizeAccount DEF TokenLogin, Reading
  <1>5. ASSUME NEW c \in Clients, Verified(c)
        PROVE  AccountInv'
    <2>1. login[c] \in Users /\ sock[c] \in {"open", "closed"}
      BY <1>5 DEF Verified, TypeInv, HandlerInv, AccountInv, AliveInv
    <2> QED BY <1>5, <2>1, FinalizeAccount DEF Verified
  <1>6. ASSUME NEW c \in Clients, LockGranted(c)
        PROVE  AccountInv'
    <2>1. sock[c] \in {"open", "closed"}
      BY <1>6 DEF LockGranted, AccountInv, AliveInv
    <2> QED BY <1>6, <2>1, LockGrantedAttaches, AttachAccount DEF LockGranted
  <1>7. ASSUME NEW c \in Clients, Refused(c) \/ LoginDone(c)
        PROVE  AccountInv'
    <2>1. \A d \in Clients \ {c} : pc'[d] = pc[d] /\ login'[d] = login[d]
      BY <1>7 DEF Refused, LoginDone, TypeInv, TypeOK
    <2>2. pc'[c] = "idle"
      BY <1>7 DEF Refused, LoginDone, TypeInv, TypeOK
    <2> QED BY <1>7, <2>1, <2>2, HandlerStepAccount DEF Refused, LoginDone
  <1>8. ASSUME NEW u \in Users, Ban(u)
        PROVE  AccountInv'
    BY <1>8, SocketStepAccount DEF Ban, AccountInv, TakeInv
  <1>9. ASSUME NEW u \in Users, BanCloses(u)
        PROVE  AccountInv'
    <2>1. \A d \in Clients : sock'[d] = sock[d] \/ (sock[d] = "open" /\ sock'[d] = "closed")
      BY <1>9 DEF BanCloses
    <2>2. \A d \in Clients : pc[d] = "closing" => prev[d] \in Clients /\ sock[prev[d]] # "open"
      BY DEF AccountInv, TakeInv, TypeInv, HandlerInv, Handoff
    <2> QED BY <1>9, <2>1, <2>2, SocketStepAccount DEF BanCloses
  <1>10. CASE UNCHANGED vars
    BY <1>10, SocketStepAccount DEF vars, AccountInv, TakeInv
  <1> QED
    BY <1>1, <1>2, <1>3, <1>4, <1>5, <1>6, <1>7, <1>8, <1>9, <1>10, HandlerEndsAccount,
       RebindAccount, GraceExpiresAccount, BotAccount DEF Next, ServerStep

LEMMA AccountHolds == Spec => [](TypeInv /\ AccountInv)
  <1>1. TypeInv /\ AccountInv /\ [Next]_vars => TypeInv' /\ AccountInv'
    BY TypeStep, AccountStep
  <1> QED BY TypeInit, AccountInit, <1>1, PTL DEF Spec

\* However many auth packets the connections send, for whichever accounts,
\* concurrent logins of one account never leave two connections that act for
\* it, nor a virtual bot online under the name of one that acts.
THEOREM OneActingSession == Spec => []SingleSession
  <1>1. TypeInv /\ AccountInv => SingleSession
    BY IdentityAssumption
    DEF AccountInv, ActInv, SingleSession, Acting, Registered
  <1> QED BY <1>1, AccountHolds, PTL
\* However many auth packets the connections send, only a grace period gives
\* up an account, and only of a connection whose handler has ended and that
\* nobody is replacing.
THEOREM OnlyDeadReleased == Spec => ReleaseOnlyDead
  <1> DEFINE Rule == \A u \in Users : users[u] \in Clients /\ users'[u] \notin Clients
                        => sock[users[u]] = "gone" /\ ~HandingOver(u)
  <1>1. ASSUME TypeInv, AccountInv, Next
        PROVE  Rule
    <2>1. users \in [Users -> Clients \cup {None, Bot}] /\ Bot \notin Clients /\ None \notin Clients
      BY <1>1, IdentityAssumption DEF TypeInv, TypeOK
    <2>2. ASSUME NEW c \in Clients, GraceExpires(c)
          PROVE  Rule
      <3>1. /\ uname[c] \in Users /\ users[uname[c]] = c /\ sock[c] = "gone" /\ pending[uname[c]] = c
            /\ users' = [users EXCEPT ![uname[c]] = None]
        BY <1>1, <2>2 DEF GraceExpires, TypeInv, HandlerInv, AccountInv, GraceInv
      <3>2. ~HandingOver(uname[c])
        BY <1>1, <2>1, <3>1 DEF HandingOver, AccountInv, TakeInv, Handoff
      <3> QED BY <2>1, <3>1, <3>2
    <2>3. ASSUME NEW c \in Clients, NEW u \in Users, NEW r, NEW rest, Attach(c, u, r, rest)
          PROVE  Rule
      BY <2>1, <2>3 DEF Attach
    <2>4. ASSUME NEW c \in Clients, NEW u \in Users, Finalize(c, u)
          PROVE  Rule
      BY <2>3, <2>4 DEF Finalize
    <2>5. ASSUME NEW c \in Clients, LockGranted(c) \/ Verified(c)
          PROVE  Rule
      <3>1. login[c] \in Users
        BY <1>1, <2>5 DEF LockGranted, Verified, TypeInv, HandlerInv
      <3> QED BY <2>3, <2>4, <2>5, <3>1 DEF LockGranted, Verified
    <2>6. ASSUME NEW c \in Clients, Rebind(c)
          PROVE  Rule
      BY <2>1, <2>6 DEF Rebind
    <2>7. ASSUME NEW u \in Users, BotOnline(u) \/ BotOffline(u)
          PROVE  Rule
      BY <2>1, <2>7 DEF BotOnline, BotOffline
    <2>8. UNCHANGED users => Rule
      OBVIOUS
    <2> QED
      BY <1>1, <2>2, <2>4, <2>5, <2>6, <2>7, <2>8
      DEF Next, ServerStep, Connect, SocketCloses, AuthTimeout, HandlerEnds, PasswordLogin,
          TokenLogin, Refused, OldNotified, LoginDone, Ban, BanCloses, handlerVars,
          serverVars, accountVars, connVars
  <1>2. TypeInv /\ AccountInv /\ [Next]_vars => [Rule]_vars
    BY <1>1
  <1> QED BY <1>2, AccountHolds, PTL DEF Spec, ReleaseOnlyDead
-----------------------------------------------------------------------------
(* Announcements, where nobody is banned.                                  *)

\* The new logins of u that are not announced yet.
Unannounced(u) == {c \in Clients : pc[c] = "sending" /\ fresh[c] /\ login[c] = u}

UserTrustInv ==
    /\ \A u \in Users : db[u] = "user" /\ trust[u] = "user"
    /\ \A c \in Clients : rec[c] = "user"

\* An account has at most one unannounced login; it has a user object, whose
\* connection made that login or took over after its socket was closed; and an
\* account counts as heard of exactly when its user object is announced.
HeardInv ==
    \A u \in Users :
        /\ \A c, d \in Unannounced(u) : c = d
        /\ \A c \in Unannounced(u) : users[u] \in Clients /\ (users[u] = c \/ sock[c] # "open")
        /\ heard[u] = IF users[u] \in Clients /\ Unannounced(u) = {} THEN 1 ELSE 0

PresenceInv == UserTrustInv /\ HeardInv

\* Steps after which the same logins are unannounced, the same accounts have a
\* user object, and nothing is announced.
LEMMA QuietPresence ==
    ASSUME PresenceInv, UserTrustInv', UNCHANGED heard,
           \A u \in Users : Unannounced(u)' = Unannounced(u),
           \A u \in Users : users'[u] \in Clients <=> users[u] \in Clients,
           \A u \in Users : \A c \in Unannounced(u) :
               users[u] = c \/ sock[c] # "open" => users'[u] = c \/ sock'[c] # "open"
    PROVE  PresenceInv'
  <1>1. ASSUME NEW u \in Users
        PROVE  /\ \A c, d \in Unannounced(u)' : c = d
               /\ \A c \in Unannounced(u)' : users'[u] \in Clients /\ (users'[u] = c \/ sock'[c] # "open")
               /\ heard'[u] = IF users'[u] \in Clients /\ Unannounced(u)' = {} THEN 1 ELSE 0
    <2>1. Unannounced(u)' = Unannounced(u)
      OBVIOUS
    <2> HIDE DEF Unannounced
    <2> QED BY <2>1 DEF PresenceInv, HeardInv
  <1> QED BY <1>1 DEF PresenceInv, HeardInv

\* One handler moves on without its login becoming announced or unannounced.
LEMMA SameUnannounced ==
    ASSUME NEW c \in Clients,
           \A d \in Clients \ {c} : pc'[d] = pc[d] /\ login'[d] = login[d] /\ fresh'[d] = fresh[d],
           ~(pc[c] = "sending" /\ fresh[c]), ~(pc'[c] = "sending" /\ fresh'[c])
    PROVE  \A u \in Users : Unannounced(u)' = Unannounced(u)
  BY DEF Unannounced

LEMMA AttachPresence ==
    ASSUME TypeInv, AccountInv, PresenceInv, NEW c \in Clients, NEW u \in Users, NEW rest,
           Attaching(c, u, "user", rest), pc[c] \in {"idle", "verify", "wait"},
           UNCHANGED <<sock, db, heard>>,
           \A d \in Clients : rec'[d] = "user"
    PROVE  PresenceInv'
  <1>1. /\ users \in [Users -> Clients \cup {None, Bot}]
        /\ trust \in [Users -> Trust] /\ fresh \in [Clients -> BOOLEAN]
        /\ pc \in [Clients -> {"idle", "verify", "wait", "notify", "closing", "sending"}]
        /\ login \in [Clients -> Users \cup {None}]
        /\ login' = [login EXCEPT ![c] = u]
    BY DEF TypeInv, TypeOK, Attaching
  <1>2. CASE users[u] \in Clients
    <2>1. pc' = [pc EXCEPT ![c] = "notify"] /\ UNCHANGED <<fresh, users, trust>>
      BY <1>2 DEF Attaching, Attach
    <2>2. \A v \in Users : Unannounced(v)' = Unannounced(v)
      BY <1>1, <2>1, SameUnannounced
    <2> QED BY <2>1, <2>2, QuietPresence DEF PresenceInv, UserTrustInv
  <1>3. CASE users[u] \notin Clients
    <2>1. /\ pc' = [pc EXCEPT ![c] = "sending"]
          /\ fresh' = [fresh EXCEPT ![c] = TRUE]
          /\ users' = [users EXCEPT ![u] = c]
          /\ trust' = [trust EXCEPT ![u] = "user"]
      BY <1>3 DEF Attaching, Attach
    <2>2. UserTrustInv'
      BY <1>1, <2>1 DEF PresenceInv, UserTrustInv
    <2>3. Unannounced(u) = {} /\ heard[u] = 0
      BY <1>3 DEF PresenceInv, HeardInv
    <2>4. Unannounced(u)' = {c}
      BY <1>1, <2>1, <2>3 DEF Unannounced
    <2>5. ASSUME NEW v \in Users, v # u
          PROVE  Unannounced(v)' = Unannounced(v) /\ users'[v] = users[v]
      BY <1>1, <2>1, <2>5 DEF Unannounced
    <2>6. users'[u] = c
      BY <1>1, <2>1
    <2>7. HeardInv'
      <3>1. ASSUME NEW v \in Users
            PROVE  /\ \A a, b \in Unannounced(v)' : a = b
                   /\ \A a \in Unannounced(v)' :
                         users'[v] \in Clients /\ (users'[v] = a \/ sock'[a] # "open")
                   /\ heard'[v] = IF users'[v] \in Clients /\ Unannounced(v)' = {} THEN 1 ELSE 0
        <4>1. CASE v = u
          BY <2>3, <2>4, <2>6, <4>1
        <4>2. CASE v # u
          <5>1. Unannounced(v)' = Unannounced(v) /\ users'[v] = users[v]
            BY <2>5, <4>2
          <5> HIDE DEF Unannounced
          <5> QED BY <5>1 DEF PresenceInv, HeardInv
        <4> QED BY <4>1, <4>2
      <3> QED BY <3>1 DEF HeardInv
    <2> QED BY <2>2, <2>7 DEF PresenceInv
  <1> QED BY <1>2, <1>3

LEMMA FinalizePresence ==
    ASSUME TypeInv, AccountInv, PresenceInv, NEW c \in Clients, NEW u \in Users,
           pc[c] \in {"idle", "verify"}, Finalize(c, u), UNCHANGED <<sock, db, heard>>
    PROVE  PresenceInv'
  <1>1. /\ login' = [login EXCEPT ![c] = u] /\ db[u] = "user"
        /\ \A d \in Clients : rec'[d] = "user"
    BY DEF Finalize, PresenceInv, UserTrustInv, TypeInv, TypeOK
  <1>2. CASE queue[u] = <<>>
    <2>1. \A d \in Clients : Handoff(d) => login[d] # u
      BY <1>2 DEF TypeInv, HandlerInv
    <2>2. Attaching(c, u, "user", <<c>>)
      BY <1>1, <1>2, <2>1, SingletonType DEF Finalize, Attaching
    <2> QED BY <1>1, <2>2, AttachPresence
  <1>3. CASE queue[u] # <<>>
    <2>1. /\ pc' = [pc EXCEPT ![c] = "wait"] /\ UNCHANGED <<fresh, users, trust>>
      BY <1>3 DEF Finalize
    <2>2. \A v \in Users : Unannounced(v)' = Unannounced(v)
      BY <1>1, <2>1, SameUnannounced DEF TypeInv, TypeOK
    <2> QED BY <1>1, <2>1, <2>2, QuietPresence DEF PresenceInv, UserTrustInv
  <1> QED BY <1>2, <1>3

LEMMA RebindPresence ==
    ASSUME TypeInv, AccountInv, PresenceInv, NEW c \in Clients, Rebind(c)
    PROVE  PresenceInv'
  <1> DEFINE u == login[c]
  <1>1. /\ pc[c] = "closing" /\ u \in Users /\ prev[c] \in Clients
        /\ users[u] = prev[c] /\ sock[prev[c]] # "open"
        /\ None \notin Clients /\ rec[c] = "user"
    BY IdentityAssumption
    DEF Rebind, TypeInv, HandlerInv, Handoff, AccountInv, TakeInv, PresenceInv, UserTrustInv
  <1>2. /\ users' = [users EXCEPT ![u] = c]
        /\ pc' = [pc EXCEPT ![c] = "sending"]
        /\ fresh' = [fresh EXCEPT ![c] = FALSE]
        /\ trust' = [trust EXCEPT ![u] = "user"]
        /\ UNCHANGED <<sock, login, rec, db, heard>>
    BY <1>1 DEF Rebind
  <1>3. /\ users \in [Users -> Clients \cup {None, Bot}]
        /\ trust \in [Users -> Trust] /\ fresh \in [Clients -> BOOLEAN]
        /\ pc \in [Clients -> {"idle", "verify", "wait", "notify", "closing", "sending"}]
    BY DEF TypeInv, TypeOK
  <1>4. UserTrustInv'
    BY <1>2, <1>3 DEF PresenceInv, UserTrustInv
  <1>5. \A v \in Users : Unannounced(v)' = Unannounced(v)
    BY <1>1, <1>2, <1>3, SameUnannounced
  <1>6. \A v \in Users : \A d \in Unannounced(v) :
           users[v] = d \/ sock[d] # "open" => users'[v] = d \/ sock'[d] # "open"
    BY <1>1, <1>2, <1>3
  <1>7. \A v \in Users : users'[v] \in Clients <=> users[v] \in Clients
    BY <1>1, <1>2, <1>3
  <1> QED BY <1>2, <1>4, <1>5, <1>6, <1>7, QuietPresence

\* The login of a new user object is announced: only there does a login stop
\* being unannounced.
LEMMA LoginDonePresence ==
    ASSUME TypeInv, PresenceInv, NEW c \in Clients, LoginDone(c)
    PROVE  PresenceInv'
  <1> DEFINE u == login[c]
  <1>1. /\ u \in Users /\ pc[c] = "sending" /\ trust[u] = "user"
        /\ pc' = [pc EXCEPT ![c] = "idle"]
        /\ UNCHANGED <<sock, login, rec, fresh, users, db, trust>>
    BY DEF LoginDone, TypeInv, HandlerInv, PresenceInv, UserTrustInv, connVars, serverVars
  <1>2. /\ pc \in [Clients -> {"idle", "verify", "wait", "notify", "closing", "sending"}]
        /\ heard \in [Users -> Int]
    BY DEF TypeInv, TypeOK
  <1>3. UserTrustInv'
    BY <1>1 DEF PresenceInv, UserTrustInv
  <1>4. CASE fresh[c]
    <2>1. c \in Unannounced(u)
      BY <1>1, <1>4 DEF Unannounced
    <2>2. Unannounced(u) = {c} /\ users[u] \in Clients /\ heard[u] = 0
      BY <1>1, <2>1 DEF PresenceInv, HeardInv
    <2>3. heard' = [heard EXCEPT ![u] = heard[u] + 1]
      BY <1>1, <1>4 DEF LoginDone
    <2>4. Unannounced(u)' = {} /\ heard'[u] = 1
      BY <1>1, <1>2, <2>2, <2>3 DEF Unannounced
    <2>5. ASSUME NEW v \in Users, v # u
          PROVE  Unannounced(v)' = Unannounced(v) /\ heard'[v] = heard[v]
      BY <1>1, <1>2, <2>3, <2>5 DEF Unannounced
    <2>6. ASSUME NEW v \in Users
          PROVE  /\ \A a, b \in Unannounced(v)' : a = b
                 /\ \A a \in Unannounced(v)' :
                       users'[v] \in Clients /\ (users'[v] = a \/ sock'[a] # "open")
                 /\ heard'[v] = IF users'[v] \in Clients /\ Unannounced(v)' = {} THEN 1 ELSE 0
      <3>1. CASE v = u
        BY <1>1, <2>2, <2>4, <3>1
      <3>2. CASE v # u
        <4>1. Unannounced(v)' = Unannounced(v) /\ heard'[v] = heard[v]
          BY <2>5, <3>2
        <4> HIDE DEF Unannounced
        <4> QED BY <1>1, <4>1 DEF PresenceInv, HeardInv
      <3> QED BY <3>1, <3>2
    <2> QED BY <1>3, <2>6 DEF PresenceInv, HeardInv
  <1>5. CASE ~fresh[c]
    <2>1. UNCHANGED heard
      BY <1>5 DEF LoginDone
    <2>2. \A v \in Users : Unannounced(v)' = Unannounced(v)
      BY <1>1, <1>2, <1>5, SameUnannounced
    <2> QED BY <1>1, <1>3, <2>1, <2>2, QuietPresence
  <1> QED BY <1>4, <1>5

\* A grace period that releases an account ends an announced presence: a login
\* that took over and was not announced yet would have been resumed first.
LEMMA GraceExpiresPresence ==
    ASSUME TypeInv, AccountInv, PresenceInv, NEW c \in Clients, GraceExpires(c)
    PROVE  PresenceInv'
  <1> DEFINE u == uname[c]
  <1>1. /\ c \in Clients /\ u \in Users /\ users[u] = c
        /\ sock[c] = "gone" /\ trust[u] = "user" /\ None \notin Clients
    BY IdentityAssumption
    DEF GraceExpires, TypeInv, HandlerInv, AccountInv, GraceInv, PresenceInv, UserTrustInv
  <1>2. /\ users' = [users EXCEPT ![u] = None]
        /\ heard' = [heard EXCEPT ![u] = heard[u] - 1]
        /\ UNCHANGED <<sock, pc, login, rec, fresh, db, trust>>
    BY <1>1 DEF GraceExpires, connVars, handlerVars
  <1>3. users \in [Users -> Clients \cup {None, Bot}] /\ heard \in [Users -> Int]
    BY DEF TypeInv, TypeOK
  <1>4. Unannounced(u) = {}
    <2>1. SUFFICES ASSUME NEW d \in Unannounced(u) PROVE FALSE
      OBVIOUS
    <2>2. d \in Clients /\ pc[d] = "sending" /\ login[d] = u
      BY DEF Unannounced
    <2>3. sock[d] = "open"
      BY <2>2 DEF GraceExpires, Resumable
    <2>4. users[u] = d
      BY <1>1, <2>3 DEF PresenceInv, HeardInv
    <2> QED BY <1>1, <2>3, <2>4
  <1>5. heard'[u] = 0 /\ users'[u] = None
    BY <1>1, <1>2, <1>3, <1>4 DEF PresenceInv, HeardInv
  <1>6. \A v \in Users : Unannounced(v)' = Unannounced(v)
    BY <1>2 DEF Unannounced
  <1>7. ASSUME NEW v \in Users
        PROVE  /\ \A a, b \in Unannounced(v)' : a = b
               /\ \A a \in Unannounced(v)' :
                     users'[v] \in Clients /\ (users'[v] = a \/ sock'[a] # "open")
               /\ heard'[v] = IF users'[v] \in Clients /\ Unannounced(v)' = {} THEN 1 ELSE 0
    <2>1. Unannounced(v)' = Unannounced(v)
      BY <1>6
    <2> HIDE DEF Unannounced
    <2>2. CASE v = u
      BY <1>1, <1>4, <1>5, <2>1, <2>2
    <2>3. CASE v # u
      BY <1>2, <1>3, <2>1, <2>3 DEF PresenceInv, HeardInv
    <2> QED BY <2>2, <2>3
  <1>8. UserTrustInv'
    BY <1>2 DEF PresenceInv, UserTrustInv
  <1> QED BY <1>7, <1>8 DEF PresenceInv, HeardInv

LEMMA PresenceInit == Init => PresenceInv
  BY IdentityAssumption DEF Init, PresenceInv, UserTrustInv, HeardInv, Unannounced

LEMMA PresenceStep ==
    ASSUME Bannable = {}, TypeInv, AccountInv, PresenceInv, [Next]_vars
    PROVE  PresenceInv'
  <1> USE DEF connVars, handlerVars, serverVars, accountVars
  <1>1. ASSUME NEW c \in Clients,
               Connect(c) \/ SocketCloses(c) \/ AuthTimeout(c) \/ HandlerEnds(c)
        PROVE  PresenceInv'
    <2>1. UNCHANGED <<pc, login, rec, fresh, users, db, trust, heard>>
      BY <1>1 DEF Connect, SocketCloses, AuthTimeout, HandlerEnds
    <2>2. \A v \in Users : Unannounced(v)' = Unannounced(v)
      BY <2>1 DEF Unannounced
    <2>3. \A v \in Users : \A d \in Unannounced(v) : sock[d] # "open" => sock'[d] # "open"
      BY <1>1 DEF Connect, SocketCloses, AuthTimeout, HandlerEnds, Unannounced, TypeInv,
                  TypeOK, AccountInv, AliveInv
    <2> QED BY <2>1, <2>2, <2>3, QuietPresence DEF PresenceInv, UserTrustInv
  <1>2. ASSUME NEW c \in Clients, OldNotified(c)
        PROVE  PresenceInv'
    <2>1. /\ prev[c] \in Clients
          /\ UNCHANGED <<login, rec, fresh, users, db, trust, heard>>
      BY <1>2 DEF OldNotified, TypeInv, HandlerInv, Handoff
    <2>2. \A v \in Users : Unannounced(v)' = Unannounced(v)
      BY <1>2, SameUnannounced DEF OldNotified, TypeInv, TypeOK
    <2>3. \A d \in Clients : sock[d] # "open" => sock'[d] # "open"
      BY <1>2, <2>1 DEF OldNotified, TypeInv, TypeOK
    <2>4. \A v \in Users : \A d \in Unannounced(v) : d \in Clients
      BY DEF Unannounced
    <2> QED BY <2>1, <2>2, <2>3, <2>4, QuietPresence DEF PresenceInv, UserTrustInv
  <1>3. ASSUME NEW c \in Clients, NEW u \in Users, PasswordLogin(c, u)
        PROVE  PresenceInv'
    <2>1. UNCHANGED <<sock, rec, fresh, users, db, trust, heard>>
      BY <1>3 DEF PasswordLogin
    <2>2. \A v \in Users : Unannounced(v)' = Unannounced(v)
      BY <1>3, SameUnannounced DEF PasswordLogin, Reading, TypeInv, TypeOK
    <2> QED BY <2>1, <2>2, QuietPresence DEF PresenceInv, UserTrustInv
  <1>4. ASSUME NEW c \in Clients, NEW u \in Users, TokenLogin(c, u)
        PROVE  PresenceInv'
    BY <1>4, FinalizePresence DEF TokenLogin, Reading
  <1>5. ASSUME NEW c \in Clients, Verified(c)
        PROVE  PresenceInv'
    <2>1. login[c] \in Users
      BY <1>5 DEF Verified, TypeInv, HandlerInv
    <2> QED BY <1>5, <2>1, FinalizePresence DEF Verified
  <1>6. ASSUME NEW c \in Clients, LockGranted(c)
        PROVE  PresenceInv'
    <2>1. rec[c] = "user" /\ \A d \in Clients : rec'[d] = "user"
      BY <1>6 DEF LockGranted, PresenceInv, UserTrustInv
    <2> QED BY <1>6, <2>1, LockGrantedAttaches, AttachPresence DEF LockGranted
  <1>7. ASSUME NEW c \in Clients, Refused(c)
        PROVE  PresenceInv'
    <2>1. UNCHANGED <<sock, login, rec, fresh, users, db, trust, heard>>
      BY <1>7 DEF Refused
    <2>2. \A v \in Users : Unannounced(v)' = Unannounced(v)
      BY <1>7, SameUnannounced DEF Refused, TypeInv, TypeOK
    <2> QED BY <2>1, <2>2, QuietPresence DEF PresenceInv, UserTrustInv
  <1>8. ASSUME NEW u \in Users, BanCloses(u)
        PROVE  PresenceInv'
    <2>1. UNCHANGED <<pc, login, rec, fresh, users, db, trust, heard>>
      BY <1>8 DEF BanCloses
    <2>2. \A v \in Users : Unannounced(v)' = Unannounced(v)
      BY <2>1 DEF Unannounced
    <2>3. \A v \in Users : \A d \in Unannounced(v) : sock[d] # "open" => sock'[d] # "open"
      BY <1>8 DEF BanCloses, Unannounced
    <2> QED BY <2>1, <2>2, <2>3, QuietPresence DEF PresenceInv, UserTrustInv
  <1>9. ASSUME NEW u \in Users, BotOnline(u) \/ BotOffline(u)
        PROVE  PresenceInv'
    <2>1. UNCHANGED <<sock, pc, login, rec, fresh, db, trust, heard>>
      BY <1>9 DEF BotOnline, BotOffline
    <2>2. \A v \in Users : Unannounced(v)' = Unannounced(v)
      BY <2>1 DEF Unannounced
    <2>3. /\ users[u] \notin Clients
          /\ users' \in {[users EXCEPT ![u] = Bot], [users EXCEPT ![u] = None]}
          /\ users \in [Users -> Clients \cup {None, Bot}]
      BY <1>9, IdentityAssumption DEF BotOnline, BotOffline, TypeInv, TypeOK
    <2>4. \A v \in Users : /\ users'[v] \in Clients <=> users[v] \in Clients
                           /\ users[v] \in Clients => users'[v] = users[v]
      BY <2>3, IdentityAssumption
    <2>5. \A v \in Users : \A d \in Unannounced(v) : users[v] = d => users'[v] = d
      BY <2>4 DEF Unannounced
    <2> QED BY <2>1, <2>2, <2>4, <2>5, QuietPresence DEF PresenceInv, UserTrustInv
  <1>10. CASE UNCHANGED vars
    <2>1. UNCHANGED <<sock, pc, login, rec, fresh, users, db, trust, heard>>
      BY <1>10 DEF vars
    <2>2. \A v \in Users : Unannounced(v)' = Unannounced(v)
      BY <2>1 DEF Unannounced
    <2> QED BY <2>1, <2>2, QuietPresence DEF PresenceInv, UserTrustInv
  <1>11. \A u \in Users : ~Ban(u)
    BY DEF Ban
  <1> QED
    BY <1>1, <1>2, <1>3, <1>4, <1>5, <1>6, <1>7, <1>8, <1>9, <1>10, <1>11, RebindPresence,
       LoginDonePresence, GraceExpiresPresence DEF Next, ServerStep

\* However many auth packets the connections send, presence announcements pair
\* up while nobody is banned: a takeover is not announced, and a user goes
\* offline once for every time he came online.  (A banned user's coming or going
\* is not announced, so a ban in between leaves the other one alone.)
THEOREM AnnouncedInTurn ==
    ASSUME Bannable = {}
    PROVE  Spec => []PresencePaired
  <1>1. TypeInv /\ AccountInv /\ PresenceInv /\ [Next]_vars => PresenceInv'
    BY PresenceStep
  <1>2. PresenceInv => PresencePaired
    BY DEF PresenceInv, HeardInv, PresencePaired
  <1> QED BY PresenceInit, AccountHolds, <1>1, <1>2, PTL DEF Spec
-----------------------------------------------------------------------------
(* The session invariant, for connections that log in at most once.        *)

\* A connection that has not been bound to any account yet.
Unnamed(c) ==
    /\ uname[c] = None /\ ~replaced[c] /\ c \notin sleeping
    /\ sock[c] \in {"open", "closed"}
    /\ ~Handoff(c)

LEMMA AttachHandsOver ==
    ASSUME TypeInv, SessionInv, NEW c \in Clients, NEW u \in Users, NEW r, NEW rest,
           Attaching(c, u, r, rest), Unnamed(c), users[u] \in Clients,
           sock' = sock, auths'[c] # 0,
           \A d \in Clients \ {c} : auths'[d] = auths[d]
    PROVE  SessionInv'
  <1> DEFINE p == users[u]
  <1>1. /\ replaced' = [replaced EXCEPT ![p] = TRUE]
        /\ prev' = [prev EXCEPT ![c] = p]
        /\ pc' = [pc EXCEPT ![c] = "notify"]
        /\ UNCHANGED <<uname, index, users>>
        /\ pending' = [pending EXCEPT ![u] = None]
        /\ sleeping' = sleeping \ {pending[u]}
        /\ login' = [login EXCEPT ![c] = u]
    BY DEF Attaching, Attach
  <1>2. /\ replaced \in [Clients -> BOOLEAN] /\ prev \in [Clients -> Clients \cup {None}]
        /\ pending \in [Users -> Clients \cup {None}] /\ sleeping \subseteq Clients
        /\ login \in [Clients -> Users \cup {None}]
        /\ pc \in [Clients -> {"idle", "verify", "wait", "notify", "closing", "sending"}]
    BY DEF TypeInv, TypeOK
  <1>3. p \in Clients /\ uname[p] = u /\ u # None /\ p # c
    BY IdentityAssumption DEF SessionInv, UserInv, Unnamed
  <1>4. p \in sleeping => pending[u] = p
    BY <1>3 DEF SessionInv, OwnerInv
  <1>5. LoginInv'
    BY <1>1, <1>2, <1>3 DEF SessionInv, LoginInv, Unnamed
  <1>6. OwnerInv'
    BY <1>1, <1>2, <1>3, <1>4 DEF SessionInv, OwnerInv, LoginInv
  <1>7. HandoffInv'
    BY <1>1, <1>2, <1>3 DEF SessionInv, HandoffInv, TypeInv, HandlerInv, Handoff
  <1>8. ASSUME NEW v \in Users, v # u
        PROVE  /\ HandingOver(v) => HandingOver(v)'
               /\ users[v] # p
               /\ users[v] = pending[u] => users[v] = None
    BY <1>1, <1>2, <1>3, <1>8 DEF HandingOver, Unnamed, Handoff, SessionInv, UserInv
  <1>9. HandingOver(u)'
    BY <1>1, <1>2 DEF HandingOver
  <1>10. UserInv'
    BY <1>1, <1>2, <1>3, <1>8, <1>9, IdentityAssumption DEF SessionInv, UserInv
  <1>11. IndexInv'
    BY <1>1, <1>2, <1>3 DEF SessionInv, IndexInv, Registered, UserInv
  <1> QED BY <1>5, <1>6, <1>7, <1>10, <1>11 DEF SessionInv

LEMMA AttachBinds ==
    ASSUME TypeInv, SessionInv, NEW c \in Clients, NEW u \in Users, NEW r, NEW rest,
           Attaching(c, u, r, rest), Unnamed(c), users[u] \notin Clients,
           sock' = sock, auths'[c] # 0,
           \A d \in Clients \ {c} : auths'[d] = auths[d]
    PROVE  SessionInv'
  <1>1. /\ uname' = [uname EXCEPT ![c] = u]
        /\ index' = [index EXCEPT ![u] = c]
        /\ users' = [users EXCEPT ![u] = c]
        /\ pc' = [pc EXCEPT ![c] = "sending"]
        /\ UNCHANGED <<replaced, prev>>
        /\ pending' = [pending EXCEPT ![u] = None]
        /\ sleeping' = sleeping \ {pending[u]}
        /\ login' = [login EXCEPT ![c] = u]
    BY DEF Attaching, Attach
  <1>2. /\ uname \in [Clients -> Users \cup {None}]
        /\ index \in [Users -> Clients \cup {None}]
        /\ users \in [Users -> Clients \cup {None, Bot}]
        /\ pending \in [Users -> Clients \cup {None}] /\ sleeping \subseteq Clients
        /\ login \in [Clients -> Users \cup {None}]
        /\ pc \in [Clients -> {"idle", "verify", "wait", "notify", "closing", "sending"}]
    BY DEF TypeInv, TypeOK
  <1>3. u # None /\ None \notin Clients /\ None \notin Users
    BY IdentityAssumption
  <1>4. \A v \in Users : users[v] # c /\ pending[v] # c /\ index[v] # c
    BY <1>3 DEF SessionInv, UserInv, IndexInv, Unnamed
  <1>5. LoginInv'
    BY <1>1, <1>2, <1>3 DEF SessionInv, LoginInv, Unnamed
  <1>6. OwnerInv'
    <2>1. \A d \in sleeping : uname[d] # u /\ d # c
      BY <1>2 DEF SessionInv, OwnerInv, Unnamed
    <2>2. \A d \in Clients : uname[d] = u /\ ~replaced[d] => sock[d] = "gone"
      BY <1>3 DEF SessionInv, OwnerInv
    <2>3. \A d \in sleeping' : uname'[d] = uname[d] /\ uname[d] \in Users /\ uname[d] # u
      BY <1>1, <1>2, <2>1 DEF TypeInv, HandlerInv
    <2> QED BY <1>1, <1>2, <1>3, <2>1, <2>2, <2>3 DEF SessionInv, OwnerInv
  <1>7. HandoffInv'
    <2>1. \A d \in Clients : Handoff(d) => d # c /\ login[d] # u /\ login[d] \in Users
                                           /\ prev[d] \in Clients /\ prev[d] # c
      BY <1>3 DEF Attaching, Unnamed, TypeInv, HandlerInv, Handoff, SessionInv, HandoffInv
    <2> QED BY <1>1, <1>2, <2>1 DEF SessionInv, HandoffInv, Handoff
  <1>8. ASSUME NEW v \in Users, v # u
        PROVE  /\ HandingOver(v) => HandingOver(v)'
               /\ users[v] = pending[u] => users[v] = None
    BY <1>1, <1>2, <1>3, <1>8 DEF HandingOver, Unnamed, Handoff, SessionInv, UserInv
  <1>9. UserInv'
    <2>1. ASSUME NEW v \in Users, v # u
          PROVE  /\ users'[v] = users[v] /\ pending'[v] = pending[v]
                 /\ pending[v] # None => pending[v] # pending[u]
      BY <1>1, <1>2, <2>1 DEF SessionInv, UserInv
    <2>2. users'[u] = c /\ uname'[c] = u /\ ~replaced[c] /\ sock[c] # "gone" /\ pending'[u] = None
      BY <1>1, <1>2 DEF Unnamed
    <2>3. \A d \in Clients : d # c => uname'[d] = uname[d]
      BY <1>1, <1>2
    <2> QED BY <1>1, <1>2, <1>3, <1>4, <1>8, <2>1, <2>2, <2>3 DEF SessionInv, UserInv
  <1>10. IndexInv'
    BY <1>1, <1>2, <1>3, <1>4 DEF SessionInv, IndexInv, Registered, Unnamed
  <1> QED BY <1>5, <1>6, <1>7, <1>9, <1>10 DEF SessionInv

LEMMA RebindSession ==
    ASSUME TypeInv, SessionInv, NEW c \in Clients, Rebind(c)
    PROVE  SessionInv'
  <1> DEFINE u == login[c]
  <1> DEFINE p == users[u]
  <1>1. /\ pc[c] = "closing" /\ u \in Users
        /\ p \in Clients /\ p = prev[c] /\ uname[p] = u /\ replaced[p]
        /\ uname[c] = None /\ p # c /\ ~replaced[c] /\ c \notin sleeping
        /\ sock[c] \in {"open", "closed"}
        /\ None \notin Users /\ None \notin Clients
    BY IdentityAssumption
    DEF Rebind, TypeInv, HandlerInv, Handoff, SessionInv, HandoffInv, LoginInv
  <1>2. /\ uname' = [uname EXCEPT ![c] = u]
        /\ index' = [index EXCEPT ![u] = c]
        /\ users' = [users EXCEPT ![u] = c]
        /\ pc' = [pc EXCEPT ![c] = "sending"]
        /\ UNCHANGED <<sock, replaced, auths, login, prev, pending, sleeping>>
    BY <1>1 DEF Rebind
  <1>3. /\ uname \in [Clients -> Users \cup {None}]
        /\ index \in [Users -> Clients \cup {None}]
        /\ users \in [Users -> Clients \cup {None, Bot}]
        /\ pending \in [Users -> Clients \cup {None}] /\ sleeping \subseteq Clients
        /\ pc \in [Clients -> {"idle", "verify", "wait", "notify", "closing", "sending"}]
    BY DEF TypeInv, TypeOK
  <1>4. \A v \in Users : users[v] # c /\ pending[v] # c /\ index[v] # c
    BY <1>1 DEF SessionInv, UserInv, IndexInv
  <1>5. LoginInv'
    BY <1>1, <1>2, <1>3 DEF SessionInv, LoginInv
  <1>6. OwnerInv'
    <2>1. \A d \in sleeping : uname[d] # u /\ d # c /\ uname[d] \in Users
      BY <1>1, <1>3 DEF SessionInv, OwnerInv, TypeInv, HandlerInv
    <2>2. \A d \in Clients : uname[d] = u /\ ~replaced[d] => sock[d] = "gone"
      BY <1>1 DEF SessionInv, OwnerInv
    <2> QED BY <1>1, <1>2, <1>3, <2>1, <2>2 DEF SessionInv, OwnerInv
  <1>7. \A d \in Clients : Handoff(d) /\ d # c => login[d] # u
    BY <1>1 DEF TypeInv, HandlerInv, Handoff
  <1>8. HandoffInv'
    <2>1. \A d \in Clients : Handoff(d) => login[d] \in Users /\ prev[d] \in Clients /\ prev[d] # c
      BY <1>1 DEF TypeInv, HandlerInv, SessionInv, HandoffInv, Handoff
    <2> QED BY <1>1, <1>2, <1>3, <1>7, <2>1 DEF SessionInv, HandoffInv, Handoff
  <1>9. UserInv'
    <2>1. ASSUME NEW v \in Users, v # u
          PROVE  HandingOver(v) => HandingOver(v)'
      BY <1>1, <1>2, <1>3, <2>1 DEF HandingOver
    <2>2. \A d \in Clients : d # c => uname'[d] = uname[d]
      BY <1>2, <1>3
    <2>3. users'[u] = c /\ uname'[c] = u
      BY <1>1, <1>2, <1>3
    <2> QED BY <1>1, <1>2, <1>3, <1>4, <2>1, <2>2, <2>3 DEF SessionInv, UserInv
  <1>10. IndexInv'
    BY <1>1, <1>2, <1>3, <1>4 DEF SessionInv, IndexInv, Registered
  <1> QED BY <1>5, <1>6, <1>8, <1>9, <1>10 DEF SessionInv

LEMMA HandlerEndsSession ==
    ASSUME TypeInv, SessionInv, NEW c \in Clients, HandlerEnds(c)
    PROVE  SessionInv'
  <1>1. /\ sock[c] = "closed" /\ pc[c] = "idle"
        /\ sock' = [sock EXCEPT ![c] = "gone"]
        /\ UNCHANGED <<uname, replaced, auths, pc, login, prev, users>>
        /\ index' = [u \in Users |-> IF u = uname[c] /\ index[u] = c THEN None ELSE index[u]]
    BY DEF HandlerEnds, handlerVars
  <1>2. /\ sock \in [Clients -> {"new", "open", "closed", "gone"}]
        /\ uname \in [Clients -> Users \cup {None}]
        /\ pending \in [Users -> Clients \cup {None}] /\ sleeping \subseteq Clients
        /\ None \notin Users /\ None \notin Clients
        /\ replaced \in [Clients -> BOOLEAN]
    BY IdentityAssumption DEF TypeInv, TypeOK
  <1>3. c \notin sleeping
    BY <1>1 DEF SessionInv, OwnerInv
  <1>4. HandoffInv'
    <2>1. \A d \in Clients : Handoff(d) => prev[d] \in Clients
      BY DEF TypeInv, HandlerInv
    <2> QED BY <1>1, <1>2, <2>1 DEF SessionInv, HandoffInv, Handoff
  <1>5. IndexInv'
    BY <1>1, <1>2 DEF SessionInv, IndexInv, Registered, UserInv
  <1>6. \A v \in Users : HandingOver(v)' <=> HandingOver(v)
    BY <1>1 DEF HandingOver
  <1>7. CASE OwnsSession(c)
    <2>1. /\ uname[c] \in Users /\ ~replaced[c] /\ users[uname[c]] = c
          /\ pending' = [pending EXCEPT ![uname[c]] = c]
          /\ sleeping' = sleeping \cup {c}
      BY <1>1, <1>2, <1>7 DEF HandlerEnds, OwnsSession, SessionInv, OwnerInv
    <2>2. \A d \in sleeping : uname[d] \in Users /\ uname[d] # uname[c]
      BY <1>2, <1>3, <2>1 DEF TypeInv, HandlerInv, SessionInv, OwnerInv
    <2>3. LoginInv'
      BY <1>1, <1>2, <2>1 DEF SessionInv, LoginInv
    <2>4. OwnerInv'
      BY <1>1, <1>2, <2>1, <2>2 DEF SessionInv, OwnerInv
    <2>5. UserInv'
      BY <1>1, <1>2, <1>6, <2>1 DEF SessionInv, UserInv
    <2> QED BY <1>4, <1>5, <2>3, <2>4, <2>5 DEF SessionInv
  <1>8. CASE ~OwnsSession(c)
    <2>1. UNCHANGED <<pending, sleeping>>
      BY <1>8 DEF HandlerEnds
    <2>2. uname[c] = None \/ replaced[c]
      BY <1>1, <1>8 DEF OwnsSession, SessionInv, OwnerInv
    <2>3. LoginInv'
      BY <1>1, <1>2, <2>1 DEF SessionInv, LoginInv
    <2>4. OwnerInv'
      BY <1>1, <1>2, <1>3, <2>1, <2>2 DEF SessionInv, OwnerInv
    <2>5. UserInv'
      BY <1>1, <1>2, <1>6, <2>1, <2>2 DEF SessionInv, UserInv
    <2> QED BY <1>4, <1>5, <2>3, <2>4, <2>5 DEF SessionInv
  <1> QED BY <1>7, <1>8

LEMMA GraceExpiresSession ==
    ASSUME TypeInv, SessionInv, NEW c \in Clients, GraceExpires(c)
    PROVE  SessionInv'
  <1> DEFINE u == uname[c]
  <1>1. /\ c \in sleeping /\ u \in Users /\ users[u] = c
        /\ sock[c] = "gone" /\ ~replaced[c] /\ pending[u] = c
        /\ None \notin Users /\ None \notin Clients
    BY IdentityAssumption DEF GraceExpires, TypeInv, HandlerInv, SessionInv, OwnerInv
  <1>2. /\ sleeping' = sleeping \ {c}
        /\ pending' = [pending EXCEPT ![u] = None]
        /\ users' = [users EXCEPT ![u] = None]
        /\ UNCHANGED <<sock, uname, replaced, auths, pc, login, prev, index>>
    BY <1>1 DEF GraceExpires, connVars, handlerVars
  <1>3. /\ users \in [Users -> Clients \cup {None, Bot}]
        /\ pending \in [Users -> Clients \cup {None}] /\ sleeping \subseteq Clients
    BY DEF TypeInv, TypeOK
  <1>4. LoginInv'
    BY <1>1, <1>2 DEF SessionInv, LoginInv
  <1>5. OwnerInv'
    <2>1. \A d \in sleeping' : d # c /\ uname[d] \in Users /\ uname[d] # u
      BY <1>1, <1>2, <1>3 DEF TypeInv, HandlerInv, SessionInv, OwnerInv
    <2>2. \A d \in Clients : uname[d] = u /\ ~replaced[d] => sock[d] = "gone"
      BY <1>1 DEF SessionInv, OwnerInv
    <2> QED BY <1>1, <1>2, <1>3, <2>1, <2>2 DEF SessionInv, OwnerInv
  <1>6. HandoffInv'
    BY <1>1, <1>2, <1>3 DEF SessionInv, HandoffInv, TypeInv, HandlerInv, Handoff
  <1>7. UserInv'
    <2>1. \A v \in Users : HandingOver(v)' <=> HandingOver(v)
      BY <1>2 DEF HandingOver
    <2> QED BY <1>1, <1>2, <1>3, <2>1 DEF SessionInv, UserInv
  <1>8. IndexInv'
    BY <1>1, <1>2, <1>3 DEF SessionInv, IndexInv, Registered
  <1> QED BY <1>4, <1>5, <1>6, <1>7, <1>8 DEF SessionInv

\* Steps that change sockets only: a socket opens, or is closed while its
\* handler goes on, or an "already logged in" packet is out.
LEMMA SocketStepSession ==
    ASSUME TypeInv, SessionInv,
           UNCHANGED <<uname, replaced, auths, login, prev, index, users, pending, sleeping>>,
           \A c \in Clients : \/ sock'[c] = sock[c]
                              \/ sock[c] \in {"open", "new"} /\ sock'[c] \in {"open", "closed"},
           \A c \in Clients : /\ pc'[c] = pc[c] \/ (pc[c] = "notify" /\ pc'[c] = "closing")
                              /\ pc'[c] = "closing" => sock'[prev[c]] # "open"
    PROVE  SessionInv'
  <1>1. \A v \in Users : HandingOver(v)' <=> HandingOver(v)
    BY DEF HandingOver
  <1>2. \A c \in Clients : sock[c] = "new" => uname[c] = None
    BY DEF SessionInv, LoginInv
  <1>3. LoginInv'
    BY DEF SessionInv, LoginInv
  <1>4. OwnerInv'
    BY <1>2, IdentityAssumption DEF SessionInv, OwnerInv, TypeInv, HandlerInv
  <1>5. HandoffInv'
    BY DEF SessionInv, HandoffInv
  <1>6. UserInv'
    BY <1>1 DEF SessionInv, UserInv
  <1>7. IndexInv'
    BY <1>2, IdentityAssumption DEF SessionInv, IndexInv, Registered, UserInv
  <1> QED BY <1>3, <1>4, <1>5, <1>6, <1>7 DEF SessionInv

\* Steps of a handler that is not handing over, neither before nor after.
LEMMA HandlerStepSession ==
    ASSUME TypeInv, SessionInv, NEW c \in Clients,
           UNCHANGED <<sock, uname, replaced, prev, index, users, pending, sleeping>>,
           \A d \in Clients \ {c} : /\ pc'[d] = pc[d] /\ login'[d] = login[d]
                                    /\ auths'[d] = auths[d],
           ~Handoff(c), pc'[c] \notin {"notify", "closing"}, auths'[c] # 0,
           pc'[c] # "idle" => sock[c] \in {"open", "closed"},
           pc'[c] \in {"verify", "wait"} => uname[c] = None,
           sock[c] # "new"
    PROVE  SessionInv'
  <1>1. \A v \in Users : HandingOver(v)' <=> HandingOver(v)
    BY DEF HandingOver, Handoff
  <1>2. LoginInv'
    BY DEF SessionInv, LoginInv
  <1>3. OwnerInv'
    BY DEF SessionInv, OwnerInv
  <1>4. HandoffInv'
    BY DEF SessionInv, HandoffInv, Handoff
  <1>5. UserInv'
    BY <1>1 DEF SessionInv, UserInv
  <1>6. IndexInv'
    BY DEF SessionInv, IndexInv, Registered
  <1> QED BY <1>2, <1>3, <1>4, <1>5, <1>6 DEF SessionInv

LEMMA FinalizeSession ==
    ASSUME TypeInv, SessionInv, NEW c \in Clients, NEW u \in Users,
           pc[c] \in {"idle", "verify"}, Finalize(c, u), Unnamed(c),
           sock' = sock, auths'[c] # 0,
           \A d \in Clients \ {c} : auths'[d] = auths[d]
    PROVE  SessionInv'
  <1>1. login' = [login EXCEPT ![c] = u]
    BY DEF Finalize
  <1>2. CASE queue[u] = <<>>
    <2>1. \A d \in Clients : Handoff(d) => login[d] # u
      BY <1>2 DEF TypeInv, HandlerInv
    <2>2. Attaching(c, u, db[u], <<c>>)
      BY <1>1, <1>2, <2>1, SingletonType DEF Finalize, Attaching
    <2> QED BY <2>2, AttachHandsOver, AttachBinds
  <1>3. CASE queue[u] # <<>>
    <2>1. /\ pc' = [pc EXCEPT ![c] = "wait"]
          /\ UNCHANGED <<uname, replaced, prev, index, users, pending, sleeping>>
      BY <1>3 DEF Finalize
    <2>2. \A d \in Clients \ {c} : pc'[d] = pc[d] /\ login'[d] = login[d]
      BY <1>1, <2>1 DEF TypeInv, TypeOK
    <2>3. pc'[c] = "wait"
      BY <2>1 DEF TypeInv, TypeOK
    <2> QED BY <2>1, <2>2, <2>3, HandlerStepSession DEF Unnamed
  <1> QED BY <1>2, <1>3

LEMMA BotSession ==
    ASSUME TypeInv, SessionInv, NEW u \in Users, BotOnline(u) \/ BotOffline(u)
    PROVE  SessionInv'
  <1>1. /\ users[u] \notin Clients
        /\ users' \in {[users EXCEPT ![u] = Bot], [users EXCEPT ![u] = None]}
        /\ UNCHANGED <<sock, uname, replaced, auths, pc, login, prev, index, pending,
                       sleeping>>
        /\ None \notin Clients /\ None \notin Users /\ Bot \notin Clients
    BY IdentityAssumption DEF BotOnline, BotOffline, connVars, handlerVars
  <1>2. users \in [Users -> Clients \cup {None, Bot}]
    BY DEF TypeInv, TypeOK
  <1>3. \A v \in Users : /\ users'[v] \in Clients => users'[v] = users[v]
                         /\ users[v] \in Clients => users'[v] = users[v]
    BY <1>1, <1>2
  <1>4. LoginInv'
    BY <1>1 DEF SessionInv, LoginInv
  <1>5. OwnerInv'
    <2>1. \A c \in Clients : uname[c] # None => uname[c] \in Users
      BY DEF TypeInv, TypeOK
    <2> QED BY <1>1, <1>3, <2>1 DEF SessionInv, OwnerInv, TypeInv, HandlerInv
  <1>6. HandoffInv'
    BY <1>1, <1>3 DEF SessionInv, HandoffInv, TypeInv, HandlerInv, Handoff
  <1>7. UserInv'
    <2>1. \A v \in Users : HandingOver(v)' <=> HandingOver(v)
      BY <1>1 DEF HandingOver
    <2> QED BY <1>1, <1>3, <2>1 DEF SessionInv, UserInv
  <1>8. IndexInv'
    BY <1>1, <1>3 DEF SessionInv, IndexInv, Registered
  <1> QED BY <1>4, <1>5, <1>6, <1>7, <1>8 DEF SessionInv

LEMMA SessionInit == Init => SessionInv
  BY IdentityAssumption
  DEF Init, SessionInv, LoginInv, OwnerInv, HandoffInv, UserInv, IndexInv

LEMMA SessionStep ==
    ASSUME MaxAuth = 1, TypeInv, SessionInv, [Next]_vars
    PROVE  SessionInv'
  <1> USE DEF connVars, handlerVars, serverVars, accountVars
  <1>1. ASSUME NEW c \in Clients, Connect(c) \/ SocketCloses(c) \/ AuthTimeout(c)
        PROVE  SessionInv'
    <2>1. /\ \A d \in Clients : sock'[d] = sock[d] \/
                (sock[d] \in {"open", "new"} /\ sock'[d] \in {"open", "closed"})
          /\ \A d \in Clients : pc'[d] = "closing" => sock'[prev[d]] # "open"
      BY <1>1 DEF Connect, SocketCloses, AuthTimeout, TypeInv, TypeOK, HandlerInv,
                  Handoff, SessionInv, HandoffInv, LoginInv
    <2> QED BY <1>1, <2>1, SocketStepSession DEF Connect, SocketCloses, AuthTimeout
  <1>2. ASSUME NEW c \in Clients, OldNotified(c)
        PROVE  SessionInv'
    <2>1. prev[c] \in Clients
      BY <1>2 DEF OldNotified, TypeInv, HandlerInv, Handoff
    <2>2. sock[prev[c]] # "new"
      BY <1>2, <2>1, IdentityAssumption
      DEF OldNotified, SessionInv, HandoffInv, LoginInv
    <2>3. /\ \A d \in Clients : sock'[d] = sock[d] \/
                (sock[d] \in {"open", "new"} /\ sock'[d] \in {"open", "closed"})
          /\ sock'[prev[c]] # "open"
          /\ \A d \in Clients : sock[d] # "open" => sock'[d] # "open"
      BY <1>2, <2>1 DEF OldNotified, TypeInv, TypeOK
    <2>4. \A d \in Clients : /\ pc'[d] = pc[d] \/ (pc[d] = "notify" /\ pc'[d] = "closing")
                             /\ pc'[d] = "closing" => d = c \/ pc[d] = "closing"
      BY <1>2 DEF OldNotified, TypeInv, TypeOK
    <2>5. \A d \in Clients : pc[d] = "closing" => prev[d] \in Clients /\ sock[prev[d]] # "open"
      BY DEF SessionInv, HandoffInv, TypeInv, HandlerInv, Handoff
    <2> QED BY <1>2, <2>3, <2>4, <2>5, SocketStepSession DEF OldNotified
  <1>3. ASSUME NEW c \in Clients, NEW u \in Users, PasswordLogin(c, u)
        PROVE  SessionInv'
    <2>1. auths[c] = 0 /\ uname[c] = None
      BY <1>3 DEF PasswordLogin, TypeInv, TypeOK, SessionInv, LoginInv
    <2>2. auths'[c] # 0 /\ pc'[c] = "verify"
      BY <1>3, <2>1 DEF PasswordLogin, TypeInv, TypeOK
    <2>3. \A d \in Clients \ {c} : pc'[d] = pc[d] /\ login'[d] = login[d] /\ auths'[d] = auths[d]
      BY <1>3 DEF PasswordLogin, TypeInv, TypeOK
    <2> QED BY <1>3, <2>1, <2>2, <2>3, HandlerStepSession DEF PasswordLogin, Reading, Handoff
  <1>4. ASSUME NEW c \in Clients, NEW u \in Users, TokenLogin(c, u)
        PROVE  SessionInv'
    <2>1. auths[c] = 0 /\ pc[c] = "idle" /\ Unnamed(c)
      BY <1>4 DEF TokenLogin, Reading, TypeInv, TypeOK, SessionInv, LoginInv, Unnamed, Handoff
    <2>2. auths'[c] # 0 /\ \A d \in Clients \ {c} : auths'[d] = auths[d]
      BY <1>4, <2>1 DEF TokenLogin, TypeInv, TypeOK
    <2> QED BY <1>4, <2>1, <2>2, FinalizeSession DEF TokenLogin
  <1>5. ASSUME NEW c \in Clients, Verified(c)
        PROVE  SessionInv'
    <2>1. login[c] \in Users /\ Unnamed(c) /\ auths[c] # 0
      BY <1>5 DEF Verified, TypeInv, HandlerInv, SessionInv, LoginInv, Unnamed, Handoff
    <2> QED BY <1>5, <2>1, FinalizeSession DEF Verified
  <1>6. ASSUME NEW c \in Clients, LockGranted(c)
        PROVE  SessionInv'
    <2>1. /\ login[c] \in Users /\ Unnamed(c) /\ auths[c] # 0
          /\ queue[login[c]] \in Seq(Clients)
      BY <1>6 DEF LockGranted, TypeInv, TypeOK, HandlerInv, SessionInv, LoginInv, Unnamed, Handoff
    <2>2. \A d \in Clients : Handoff(d) => login[d] # login[c]
      BY <1>6 DEF LockGranted, TypeInv, HandlerInv, Handoff
    <2>3. login' = [login EXCEPT ![c] = login[c]]
      BY <1>6 DEF LockGranted, TypeInv, TypeOK
    <2>4. Attaching(c, login[c], rec[c], queue[login[c]])
      BY <1>6, <2>1, <2>2, <2>3 DEF LockGranted, Attaching
    <2> QED BY <1>6, <2>1, <2>4, AttachHandsOver, AttachBinds DEF LockGranted
  <1>7. ASSUME NEW c \in Clients, Refused(c) \/ LoginDone(c)
        PROVE  SessionInv'
    <2>1. ~Handoff(c) /\ pc[c] # "idle" /\ pc'[c] = "idle"
      BY <1>7 DEF Refused, LoginDone, TypeInv, TypeOK, Handoff
    <2>2. auths[c] # 0 /\ sock[c] # "new"
      BY <2>1 DEF SessionInv, LoginInv
    <2>3. \A d \in Clients \ {c} : pc'[d] = pc[d] /\ login'[d] = login[d] /\ auths'[d] = auths[d]
      BY <1>7 DEF Refused, LoginDone, TypeInv, TypeOK
    <2> QED BY <1>7, <2>1, <2>2, <2>3, HandlerStepSession DEF Refused, LoginDone
  <1>8. ASSUME NEW u \in Users, Ban(u)
        PROVE  SessionInv'
    BY <1>8, SocketStepSession DEF Ban, SessionInv, HandoffInv
  <1>9. ASSUME NEW u \in Users, BanCloses(u)
        PROVE  SessionInv'
    <2>1. \A d \in Clients : sock'[d] = sock[d] \/ (sock[d] = "open" /\ sock'[d] = "closed")
      BY <1>9 DEF BanCloses
    <2>2. \A d \in Clients : pc[d] = "closing" => prev[d] \in Clients /\ sock[prev[d]] # "open"
      BY DEF SessionInv, HandoffInv, TypeInv, HandlerInv, Handoff
    <2> QED BY <1>9, <2>1, <2>2, SocketStepSession DEF BanCloses
  <1>10. CASE UNCHANGED vars
    BY <1>10, SocketStepSession DEF vars, SessionInv, HandoffInv
  <1> QED
    BY <1>1, <1>2, <1>3, <1>4, <1>5, <1>6, <1>7, <1>8, <1>9, <1>10, HandlerEndsSession,
       RebindSession, GraceExpiresSession, BotSession DEF Next, ServerStep

LEMMA InvariantHolds ==
    ASSUME MaxAuth = 1
    PROVE  Spec => [](TypeInv /\ SessionInv)
  <1>1. TypeInv /\ SessionInv /\ [Next]_vars => TypeInv' /\ SessionInv'
    BY TypeStep, SessionStep
  <1> QED BY TypeInit, SessionInit, <1>1, PTL DEF Spec

\* With one login per connection no user object is ever stranded in _users:
\* someone who will release it or rebind it always exists.
THEOREM NoUserStranded ==
    ASSUME MaxAuth = 1
    PROVE  Spec => []NoStrandedUser
  <1>1. TypeInv /\ SessionInv => NoStrandedUser
    BY IdentityAssumption
    DEF TypeInv, HandlerInv, SessionInv, LoginInv, OwnerInv, HandoffInv, UserInv,
        NoStrandedUser, Registered, OwnsSession, TypeOK
  <1> QED BY <1>1, InvariantHolds, PTL

\* With one login per connection, queued packets of a user always find the
\* connection its user object is bound to.
THEOREM IndexFindsUser ==
    ASSUME MaxAuth = 1
    PROVE  Spec => []IndexAgrees
  <1>1. TypeInv /\ SessionInv => IndexAgrees
    BY DEF SessionInv, UserInv, IndexInv, IndexAgrees, Registered
  <1> QED BY <1>1, InvariantHolds, PTL
-----------------------------------------------------------------------------
(* Sessions implements AccountSession.                                     *)

Bars == <<ownerBar, shutBar, lostBar>>

\* A step that binds no user object and names no connection: it is seen as the
\* closing of at most one socket.
LEMMA SocketRefines ==
    ASSUME UNCHANGED <<uname, users>>, NEW c \in Clients,
           \A d \in Clients : d # c =>
              (sock'[d] \in {"closed", "gone"} <=> sock[d] \in {"closed", "gone"}),
           sock[c] \in {"closed", "gone"} => sock'[c] \in {"closed", "gone"}
    PROVE  [Abstract!AbstractNext]_Bars
  <1>1. UNCHANGED <<ownerBar, lostBar>>
    BY DEF ownerBar, lostBar
  <1>2. shutBar' = shutBar \/ shutBar' = shutBar \cup {c}
    BY DEF shutBar
  <1>3. CASE shutBar' = shutBar
    BY <1>1, <1>3 DEF Bars
  <1>4. CASE shutBar' = shutBar \cup {c}
    <2>1. Abstract!Shut(c)
      BY <1>1, <1>4 DEF Abstract!Shut
    <2> QED BY <2>1 DEF Abstract!AbstractNext
  <1> QED BY <1>2, <1>3, <1>4

LEMMA BindRefines ==
    ASSUME TypeInv, SessionInv, NEW c \in Clients, NEW u \in Users,
           Unnamed(c), users[u] \notin Clients, sock' = sock,
           uname' = [uname EXCEPT ![c] = u], users' = [users EXCEPT ![u] = c]
    PROVE  Abstract!AbstractNext
  <1>1. /\ uname \in [Clients -> Users \cup {None}]
        /\ users \in [Users -> Clients \cup {None, Bot}]
        /\ None \notin Users /\ None \notin Clients /\ Bot \notin Clients
        /\ uname[c] = None
    BY IdentityAssumption DEF TypeInv, TypeOK, Unnamed
  <1>2. /\ ownerBar[u] = None
        /\ ownerBar' = [ownerBar EXCEPT ![u] = c]
        /\ shutBar' = shutBar
    BY <1>1 DEF ownerBar, shutBar
  <1>3. c \notin lostBar /\ \A v \in Users : ownerBar[v] # c
    BY <1>1 DEF lostBar, ownerBar, SessionInv, UserInv
  <1>4. lostBar' = lostBar
    <2>1. \A d \in Clients \ {c} : uname'[d] = uname[d]
      BY <1>1
    <2>2. \A d \in Clients \ {c} : uname[d] # None =>
             (users'[uname[d]] = d <=> users[uname[d]] = d)
      BY <1>1
    <2>3. uname'[c] = u /\ users'[u] = c
      BY <1>1
    <2> QED BY <1>1, <2>1, <2>2, <2>3 DEF lostBar
  <1>5. Abstract!Open(u, c)
    BY <1>2, <1>3, <1>4 DEF Abstract!Open, Abstract!Unbound
  <1> QED BY <1>5 DEF Abstract!AbstractNext

LEMMA AttachRefines ==
    ASSUME TypeInv, SessionInv, NEW c \in Clients, NEW u \in Users, NEW r, NEW rest,
           Unnamed(c), Attach(c, u, r, rest), sock' = sock
    PROVE  [Abstract!AbstractNext]_Bars
  <1>1. CASE users[u] \in Clients
    <2>1. UNCHANGED <<sock, uname, users>>
      BY <1>1 DEF Attach
    <2> QED BY <2>1, SocketRefines
  <1>2. CASE users[u] \notin Clients
    <2>1. uname' = [uname EXCEPT ![c] = u] /\ users' = [users EXCEPT ![u] = c]
      BY <1>2 DEF Attach
    <2> QED BY <1>2, <2>1, BindRefines
  <1> QED BY <1>1, <1>2

LEMMA FinalizeRefines ==
    ASSUME TypeInv, SessionInv, NEW c \in Clients, NEW u \in Users,
           Unnamed(c), Finalize(c, u), sock' = sock
    PROVE  [Abstract!AbstractNext]_Bars
  <1>1. CASE queue[u] = <<>>
    BY <1>1, AttachRefines DEF Finalize
  <1>2. CASE queue[u] # <<>>
    <2>1. UNCHANGED <<sock, uname, users>>
      BY <1>2 DEF Finalize
    <2> QED BY <2>1, SocketRefines
  <1> QED BY <1>1, <1>2

LEMMA RebindRefines ==
    ASSUME TypeInv, SessionInv, NEW c \in Clients, Rebind(c)
    PROVE  Abstract!AbstractNext
  <1> DEFINE u == login[c]
  <1> DEFINE p == users[u]
  <1>1. /\ u \in Users /\ p \in Clients /\ p = prev[c] /\ uname[p] = u
        /\ uname[c] = None /\ p # c
        /\ None \notin Users /\ None \notin Clients /\ Bot \notin Clients
        /\ uname \in [Clients -> Users \cup {None}]
        /\ users \in [Users -> Clients \cup {None, Bot}]
        /\ sock \in [Clients -> {"new", "open", "closed", "gone"}]
    BY IdentityAssumption
    DEF Rebind, TypeInv, TypeOK, HandlerInv, Handoff, SessionInv, HandoffInv, LoginInv
  <1>2. /\ uname' = [uname EXCEPT ![c] = u]
        /\ users' = [users EXCEPT ![u] = c]
        /\ sock' = sock
    BY <1>1 DEF Rebind
  <1>3. sock[p] \in {"closed", "gone"}
    BY <1>1 DEF Rebind, SessionInv, HandoffInv, LoginInv
  <1>4. /\ ownerBar[u] = p /\ p \in shutBar
        /\ ownerBar' = [ownerBar EXCEPT ![u] = c]
        /\ shutBar' = shutBar
    BY <1>1, <1>2, <1>3 DEF ownerBar, shutBar
  <1>5. c \notin lostBar /\ \A v \in Users : ownerBar[v] # c
    BY <1>1 DEF lostBar, ownerBar, SessionInv, UserInv
  <1>6. lostBar' = lostBar \cup {p}
    <2>1. \A d \in Clients \ {c} : uname'[d] = uname[d]
      BY <1>1, <1>2
    <2>2. \A d \in Clients \ {c, p} : uname[d] # None =>
             (users'[uname[d]] = d <=> users[uname[d]] = d)
      BY <1>1, <1>2
    <2>3. uname'[c] = u /\ users'[u] = c /\ uname'[p] = u
      BY <1>1, <1>2
    <2> QED BY <1>1, <2>1, <2>2, <2>3 DEF lostBar
  <1>7. Abstract!Handover(u, c)
    BY <1>4, <1>5, <1>6 DEF Abstract!Handover, Abstract!Unbound
  <1> QED BY <1>1, <1>7 DEF Abstract!AbstractNext

LEMMA GraceRefines ==
    ASSUME TypeInv, SessionInv, NEW c \in Clients, GraceExpires(c)
    PROVE  Abstract!AbstractNext
  <1> DEFINE u == uname[c]
  <1>1. /\ u \in Users /\ users[u] = c /\ sock[c] = "gone"
        /\ None \notin Users /\ None \notin Clients /\ Bot \notin Clients
        /\ uname \in [Clients -> Users \cup {None}]
        /\ users \in [Users -> Clients \cup {None, Bot}]
    BY IdentityAssumption
    DEF GraceExpires, TypeInv, TypeOK, HandlerInv, SessionInv, OwnerInv
  <1>2. users' = [users EXCEPT ![u] = None] /\ UNCHANGED <<sock, uname>>
    BY <1>1 DEF GraceExpires, connVars
  <1>3. /\ ownerBar[u] = c /\ c \in shutBar
        /\ ownerBar' = [ownerBar EXCEPT ![u] = None]
        /\ shutBar' = shutBar
    BY <1>1, <1>2 DEF ownerBar, shutBar
  <1>4. lostBar' = lostBar \cup {c}
    <2>1. \A d \in Clients \ {c} : uname[d] # None =>
             (users'[uname[d]] = d <=> users[uname[d]] = d)
      BY <1>1, <1>2
    <2> QED BY <1>1, <1>2, <2>1 DEF lostBar
  <1>5. Abstract!Release(u)
    BY <1>3, <1>4 DEF Abstract!Release
  <1> QED BY <1>1, <1>5 DEF Abstract!AbstractNext

LEMMA BotRefines ==
    ASSUME TypeInv, SessionInv, NEW u \in Users, BotOnline(u) \/ BotOffline(u)
    PROVE  UNCHANGED Bars
  <1>1. /\ users[u] \in {None, Bot}
        /\ users' \in {[users EXCEPT ![u] = Bot], [users EXCEPT ![u] = None]}
        /\ UNCHANGED <<sock, uname>>
        /\ None \notin Clients /\ Bot \notin Clients
        /\ users \in [Users -> Clients \cup {None, Bot}]
    BY IdentityAssumption DEF BotOnline, BotOffline, connVars, TypeInv, TypeOK
  <1>2. ownerBar' = ownerBar /\ shutBar' = shutBar
    BY <1>1 DEF ownerBar, shutBar
  <1>3. \A d \in Clients, v \in Users : users'[v] = d <=> users[v] = d
    BY <1>1
  <1>4. lostBar' = lostBar
    BY <1>1, <1>3 DEF lostBar, TypeInv, TypeOK
  <1> QED BY <1>2, <1>4 DEF Bars

LEMMA RefinementInit == Init => Abstract!AbstractInit
  BY IdentityAssumption DEF Init, Abstract!AbstractInit, ownerBar, shutBar, lostBar

LEMMA RefinementStep ==
    ASSUME MaxAuth = 1, TypeInv, SessionInv, [Next]_vars
    PROVE  [Abstract!AbstractNext]_Bars
  <1> USE DEF connVars, handlerVars, serverVars, accountVars
  <1>1. ASSUME NEW c \in Clients,
               Connect(c) \/ SocketCloses(c) \/ AuthTimeout(c) \/ HandlerEnds(c)
        PROVE  [Abstract!AbstractNext]_Bars
    BY <1>1, SocketRefines
    DEF Connect, SocketCloses, AuthTimeout, HandlerEnds, TypeInv, TypeOK
  <1>2. ASSUME NEW c \in Clients, OldNotified(c)
        PROVE  [Abstract!AbstractNext]_Bars
    <2>1. prev[c] \in Clients
      BY <1>2 DEF OldNotified, TypeInv, HandlerInv, Handoff
    <2> QED BY <1>2, <2>1, SocketRefines DEF OldNotified, TypeInv, TypeOK
  <1>3. ASSUME NEW c \in Clients, NEW u \in Users, PasswordLogin(c, u)
        PROVE  [Abstract!AbstractNext]_Bars
    BY <1>3, SocketRefines DEF PasswordLogin
  <1>4. ASSUME NEW c \in Clients, NEW u \in Users, TokenLogin(c, u)
        PROVE  [Abstract!AbstractNext]_Bars
    <2>1. Unnamed(c)
      BY <1>4 DEF TokenLogin, Reading, TypeInv, TypeOK, SessionInv, LoginInv, Unnamed, Handoff
    <2> QED BY <1>4, <2>1, FinalizeRefines DEF TokenLogin
  <1>5. ASSUME NEW c \in Clients, Verified(c)
        PROVE  [Abstract!AbstractNext]_Bars
    <2>1. login[c] \in Users /\ Unnamed(c)
      BY <1>5 DEF Verified, TypeInv, HandlerInv, SessionInv, LoginInv, Unnamed, Handoff
    <2> QED BY <1>5, <2>1, FinalizeRefines DEF Verified
  <1>6. ASSUME NEW c \in Clients, LockGranted(c)
        PROVE  [Abstract!AbstractNext]_Bars
    <2>1. login[c] \in Users /\ Unnamed(c)
      BY <1>6 DEF LockGranted, TypeInv, HandlerInv, SessionInv, LoginInv, Unnamed, Handoff
    <2> QED BY <1>6, <2>1, AttachRefines DEF LockGranted
  <1>7. ASSUME NEW c \in Clients, Refused(c) \/ LoginDone(c)
        PROVE  [Abstract!AbstractNext]_Bars
    BY <1>7, SocketRefines DEF Refused, LoginDone
  <1>8. ASSUME NEW u \in Users, Ban(u)
        PROVE  [Abstract!AbstractNext]_Bars
    <2>1. UNCHANGED Bars
      BY <1>8 DEF Ban, Bars, ownerBar, shutBar, lostBar
    <2> QED BY <2>1
  <1>9. ASSUME NEW u \in Users, BanCloses(u)
        PROVE  [Abstract!AbstractNext]_Bars
    <2>1. CASE users[u] \in Clients
      BY <1>9, <2>1, SocketRefines DEF BanCloses
    <2>2. CASE users[u] \notin Clients
      <3>1. UNCHANGED <<uname, users>> /\ \A d \in Clients : sock'[d] = sock[d]
        BY <1>9, <2>2 DEF BanCloses
      <3>2. UNCHANGED Bars
        BY <3>1 DEF Bars, ownerBar, shutBar, lostBar
      <3> QED BY <3>2
    <2> QED BY <2>1, <2>2
  <1>10. CASE UNCHANGED vars
    BY <1>10 DEF vars, Bars, ownerBar, shutBar, lostBar
  <1> QED
    BY <1>1, <1>2, <1>3, <1>4, <1>5, <1>6, <1>7, <1>8, <1>9, <1>10, RebindRefines,
       GraceRefines, BotRefines DEF Next, ServerStep

\* With one login per connection, every step of logins, takeovers, disconnects
\* and grace periods is a step of the abstract session: an account changes
\* hands only from a socket that is closed, and never back to a connection
\* that has lost it.
THEOREM SessionsImplementsAccountSession ==
    ASSUME MaxAuth = 1
    PROVE  Spec => SessionRefinement
  <1>1. Init => Abstract!AbstractInit
    BY RefinementInit
  <1>2. TypeInv /\ SessionInv /\ [Next]_vars => [Abstract!AbstractNext]_Abstract!abstractVars
    BY RefinementStep DEF Bars, Abstract!abstractVars
  <1> QED
    BY <1>1, <1>2, InvariantHolds, PTL DEF Spec, SessionRefinement, Abstract!AbstractSpec
=============================================================================
