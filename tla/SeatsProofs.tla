---------------------------- MODULE SeatsProofs ----------------------------
(***************************************************************************)
(* Theorems about module Seats, for any number of users, bots and tables,  *)
(* any size of a game and any number of tables joined:                     *)
(*   a user is a member of one table at a time, and a closed table never   *)
(*   comes back, whatever is snapshot, saved, restored or lost in a crash; *)
(*   the variables keep their types;                                       *)
(*   as long as nobody has a second seat in one game, members, players,    *)
(*   packets and screens agree, and a running game keeps its players.      *)
(* The first two rest on TableInv, the types on TypeInv, the rest on       *)
(* SeatInv, which has both and says of every table, row and screen what    *)
(* TableSound, RowSound and ScreenSound say.                               *)
(***************************************************************************)
EXTENDS Seats, ListsProofs, FiniteSetTheorems, SequenceTheorems, TLAPS

TableTypes ==
    /\ tstate \in [Tables -> {"unused", "open", "gone"}]
    /\ DOMAIN members = Tables /\ DOMAIN row = Tables

\* Only tables that are open have a row: the snapshot of a table goes when the
\* table goes.
RowInv == \A t \in Tables : row[t] # None => tstate[t] = "open"

\* The tables in memory share no member, and neither do the rows, which are
\* all of one snapshot (or less).
MemberInv ==
    \A u \in Users, s, t \in Tables :
        /\ tstate[s] = "open" /\ tstate[t] = "open"
        /\ u \in members[s] /\ u \in members[t]
        => s = t
RowMemberInv ==
    \A u \in Users, s, t \in Tables :
        /\ row[s] # None /\ row[t] # None
        /\ u \in row[s].members /\ u \in row[t].members
        => s = t

TableInv == TableTypes /\ RowInv /\ MemberInv /\ RowMemberInv

StaysGone == \A t \in Tables : tstate[t] = "gone" => tstate'[t] = "gone"
-----------------------------------------------------------------------------
\* Tables are closed, members leave, rows are deleted.
LEMMA ShrinkKeeps ==
    ASSUME TableInv,
           TableTypes', StaysGone,
           \A t \in Tables : tstate'[t] = "open" => /\ tstate[t] = "open"
                                                    /\ members'[t] \subseteq members[t],
           \A t \in Tables : row'[t] # None => row'[t] = row[t] /\ tstate'[t] = "open"
    PROVE  TableInv' /\ StaysGone
  <1>1. RowInv'
    BY DEF RowInv
  <1>2. MemberInv'
    BY DEF MemberInv, TableInv
  <1>3. RowMemberInv'
    BY DEF RowMemberInv, TableInv
  <1> QED BY <1>1, <1>2, <1>3 DEF TableInv

\* A table gets the members ms, each of whom it has already or who is at no table.
LEMMA GrowKeeps ==
    ASSUME TableInv, NEW t \in Tables, NEW ms,
           tstate[t] # "gone",
           tstate' = [tstate EXCEPT ![t] = "open"],
           members' = [members EXCEPT ![t] = ms],
           row' = row,
           \A v \in Users : v \in ms => At(v) \subseteq {t}
    PROVE  TableInv' /\ StaysGone
  <1>1. TableTypes' /\ StaysGone
    BY DEF TableInv, TableTypes, StaysGone
  <1>2. RowInv'
    BY DEF RowInv, TableInv, TableTypes
  <1>3. MemberInv'
    <2> SUFFICES ASSUME NEW u \in Users, NEW r \in Tables, NEW s \in Tables,
                        tstate'[r] = "open", tstate'[s] = "open",
                        u \in members'[r], u \in members'[s]
                 PROVE  r = s
      BY DEF MemberInv
    <2>1. \A q \in Tables \ {t} : tstate'[q] = tstate[q] /\ members'[q] = members[q]
      BY DEF TableInv, TableTypes
    <2>2. members'[t] = ms
      BY DEF TableInv, TableTypes
    <2>3. \A q \in Tables \ {t} : u \in ms => ~(tstate[q] = "open" /\ u \in members[q])
      BY DEF At
    <2>4. CASE r # t /\ s # t
      BY <2>1, <2>4 DEF TableInv, MemberInv
    <2>5. CASE r = t \/ s = t
      BY <2>1, <2>2, <2>3, <2>5
    <2> QED BY <2>4, <2>5
  <1>4. RowMemberInv'
    BY DEF RowMemberInv, TableInv
  <1> QED BY <1>1, <1>2, <1>3, <1>4 DEF TableInv

LEMMA DestroyKeeps ==
    ASSUME TableInv, NEW t \in Tables, Destroy(t)
    PROVE  TableInv' /\ StaysGone
  <1>1. TableTypes' /\ StaysGone
    BY DEF Destroy, TableInv, TableTypes, StaysGone
  <1>2. \A s \in Tables : tstate'[s] = "open" => /\ tstate[s] = "open"
                                                 /\ members'[s] \subseteq members[s]
    BY DEF Destroy, TableInv, TableTypes
  <1>3. \A s \in Tables : row'[s] # None => row'[s] = row[s] /\ tstate'[s] = "open"
    BY DEF Destroy, TableInv, TableTypes, RowInv
  <1> QED BY <1>1, <1>2, <1>3, ShrinkKeeps

LEMMA TableAfterKeeps ==
    ASSUME TableInv, NEW t \in Tables, NEW u, NEW ms \in SUBSET members[t],
           TableAfter(t, u, ms)
    PROVE  TableInv' /\ StaysGone
  <1>1. CASE Deserted(t, u) \/ ms = {}
    BY <1>1, DestroyKeeps DEF TableAfter
  <1>2. CASE ~(Deserted(t, u) \/ ms = {})
    <2>1. members' = [members EXCEPT ![t] = ms] /\ UNCHANGED <<tstate, row>>
      BY <1>2 DEF TableAfter
    <2>2. TableTypes' /\ StaysGone
      BY <2>1 DEF TableInv, TableTypes, StaysGone
    <2>3. \A s \in Tables : members'[s] \subseteq members[s]
      BY <2>1 DEF TableInv, TableTypes
    <2> QED BY <2>1, <2>2, <2>3, ShrinkKeeps DEF TableInv, RowInv
  <1> QED BY <1>1, <1>2

LEMMA QuietKeeps ==
    ASSUME TableInv, UNCHANGED <<tstate, members, row>>
    PROVE  TableInv' /\ StaysGone
  BY DEF TableInv, TableTypes, RowInv, MemberInv, RowMemberInv, StaysGone

\* The snapshot takes all open tables at one moment, so its rows share no member.
LEMMA PersistKeeps ==
    ASSUME TableInv, Persist
    PROVE  TableInv' /\ StaysGone
  <1>1. /\ UNCHANGED <<tstate, members>>
        /\ row' = [t \in Tables |-> IF tstate[t] = "open" THEN Picture(t) ELSE row[t]]
    BY DEF Persist, tableVars
  <1>2. \A t \in Tables : row'[t] # None => /\ tstate[t] = "open"
                                            /\ row'[t].members = members[t]
    BY <1>1 DEF Picture, TableInv, RowInv
  <1>3. TableTypes' /\ RowInv' /\ MemberInv' /\ StaysGone
    BY <1>1, <1>2 DEF TableInv, TableTypes, RowInv, MemberInv, StaysGone
  <1>4. RowMemberInv'
    BY <1>2 DEF TableInv, MemberInv, RowMemberInv
  <1> QED BY <1>3, <1>4 DEF TableInv

\* A restart makes the rows the tables.
LEMMA RestartKeeps ==
    ASSUME TableInv, Restart
    PROVE  TableInv' /\ StaysGone
  <1>1. /\ tstate' = [t \in Tables |-> IF row[t] # None THEN "open"
                                       ELSE IF tstate[t] = "open" THEN "gone" ELSE tstate[t]]
        /\ members' = [t \in Tables |-> IF row[t] # None THEN row[t].members ELSE {}]
        /\ UNCHANGED row
    BY DEF Restart, dbVars
  <1>2. TableTypes' /\ RowInv' /\ StaysGone
    BY <1>1 DEF TableInv, TableTypes, RowInv, StaysGone
  <1>3. MemberInv'
    BY <1>1 DEF TableInv, MemberInv, RowMemberInv
  <1>4. RowMemberInv'
    BY <1>1 DEF TableInv, RowMemberInv
  <1> QED BY <1>2, <1>3, <1>4 DEF TableInv
-----------------------------------------------------------------------------
LEMMA TableInit == Init => TableInv
  BY DEF Init, TableInv, TableTypes, RowInv, MemberInv, RowMemberInv

LEMMA TableStep == TableInv /\ [Next]_vars => TableInv' /\ StaysGone
  <1> SUFFICES ASSUME TableInv, [Next]_vars PROVE TableInv' /\ StaysGone
    OBVIOUS
  <1> USE DEF tableVars, userVars, dbVars
  <1>1. ASSUME NEW u \in Users, Login(u) \/ Arrive(u)
        PROVE  TableInv' /\ StaysGone
    BY <1>1, QuietKeeps DEF Login, Arrive
  <1>2. ASSUME NEW u \in Users, Disconnect(u)
        PROVE  TableInv' /\ StaysGone
    <2>1. CASE At(u) = {}
      BY <1>2, <2>1, QuietKeeps DEF Disconnect
    <2>2. CASE At(u) # {}
      <3>1. PICK t \in At(u) :
              TableAfter(t, u, IF Cardinality(members[t]) <= 1 THEN {} ELSE members[t])
        BY <1>2, <2>2 DEF Disconnect
      <3>2. t \in Tables
        BY DEF At
      <3>3. (IF Cardinality(members[t]) <= 1 THEN {} ELSE members[t]) \in SUBSET members[t]
        OBVIOUS
      <3> QED BY <3>1, <3>2, <3>3, TableAfterKeeps
    <2> QED BY <2>1, <2>2
  <1>3. ASSUME NEW u \in Users, NEW t \in Tables, Create(u, t) \/ Join(u, t)
        PROVE  TableInv' /\ StaysGone
    <2>1. At(u) = {} /\ tstate[t] # "gone" /\ row' = row
      BY <1>3 DEF Create, Join, Browsing
    <2>2. CASE Create(u, t)
      <3>1. /\ tstate' = [tstate EXCEPT ![t] = "open"]
            /\ members' = [members EXCEPT ![t] = {u}]
        BY <2>2 DEF Create
      <3> QED BY <2>1, <3>1, GrowKeeps
    <2>3. CASE Join(u, t)
      <3>1. tstate[t] = "open" /\ tstate' = tstate
        BY <2>3 DEF Join
      <3>2. tstate' = [tstate EXCEPT ![t] = "open"]
        BY <3>1 DEF TableInv, TableTypes
      <3>3. members' = [members EXCEPT ![t] = members[t] \cup {u}]
        BY <2>3 DEF Join
      <3>4. \A v \in Users : v \in members[t] \cup {u} => At(v) \subseteq {t}
        BY <2>1, <3>1 DEF At, TableInv, MemberInv
      <3> QED BY <2>1, <3>2, <3>3, <3>4, GrowKeeps
    <2> QED BY <1>3, <2>2, <2>3
  <1>4. ASSUME NEW u \in Users, NEW t \in Tables, Leave(u, t)
        PROVE  TableInv' /\ StaysGone
    BY <1>4, TableAfterKeeps DEF Leave
  <1>5. ASSUME NEW u \in Users, NEW t \in Tables,
               \/ \E b \in Bots : AddBot(u, t, b)
               \/ RemoveBot(u, t) \/ ToggleSpectator(u, t) \/ Start(u, t)
        PROVE  TableInv' /\ StaysGone
    BY <1>5, QuietKeeps DEF AddBot, RemoveBot, ToggleSpectator, Start
  <1>6. ASSUME NEW u \in Users, NEW t \in Tables, Save(u, t)
        PROVE  TableInv' /\ StaysGone
    BY <1>6, DestroyKeeps DEF Save
  <1>7. ASSUME NEW u \in Users, NEW t \in Tables, Restore(u, t)
        PROVE  TableInv' /\ StaysGone
    <2> DEFINE hs == Humans(saved.players)
    <2>1. /\ tstate[t] # "gone" /\ row' = row
          /\ tstate' = [tstate EXCEPT ![t] = "open"]
          /\ members' = [members EXCEPT ![t] = hs \cup {u}]
      BY <1>7 DEF Restore
    <2>2. At(u) = {} /\ \A v \in hs : At(v) = {}
      BY <1>7 DEF Restore, Browsing
    <2> HIDE DEF hs
    <2>3. \A v \in Users : v \in hs \cup {u} => At(v) \subseteq {t}
      BY <2>2
    <2> QED BY <2>1, <2>3, GrowKeeps
  <1>8. ASSUME NEW t \in Tables, Finish(t)
        PROVE  TableInv' /\ StaysGone
    BY <1>8, DestroyKeeps, QuietKeeps DEF Finish
  <1>9. CASE Persist
    BY <1>9, PersistKeeps
  <1>10. CASE Restart
    BY <1>10, RestartKeeps
  <1>11. CASE UNCHANGED vars
    BY <1>11, QuietKeeps DEF vars
  <1> QED
    BY <1>1, <1>2, <1>3, <1>4, <1>5, <1>6, <1>7, <1>8, <1>9, <1>10, <1>11 DEF Next

LEMMA TableInvHolds == Spec => []TableInv
  BY TableInit, TableStep, PTL DEF Spec

\* Nobody is a member of two tables: joining and restoring look for it, and a
\* restart brings back tables of one snapshot only (find_user_table).
THEOREM MembersAtOneTable == Spec => []OneTable
  <1>1. TableInv => OneTable
    <2> SUFFICES ASSUME TableInv, NEW u \in Users PROVE Cardinality(At(u)) <= 1
      BY DEF OneTable
    <2>1. CASE At(u) = {}
      BY <2>1, FS_EmptySet
    <2>2. CASE At(u) # {}
      <3>1. PICK t \in At(u) : TRUE
        BY <2>2
      <3>2. At(u) = {t}
        BY <3>1 DEF At, TableInv, MemberInv
      <3> QED BY <3>2, FS_Singleton
    <2> QED BY <2>1, <2>2
  <1> QED BY <1>1, TableInvHolds, PTL

\* "Drop the persisted row so a closed table doesn't reappear as a zombie at
\* next startup" (on_table_destroy): it does not, after any sequence of
\* snapshots, closings and crashes.
THEOREM NoTableReappears == Spec => NoZombie
  <1>1. TableInv /\ [Next]_vars
          => [\A t \in Tables : tstate[t] = "gone" => tstate'[t] = "gone"]_vars
    BY TableStep DEF StaysGone
  <1> QED
    BY <1>1, TableInvHolds, PTL DEF Spec, NoZombie
-----------------------------------------------------------------------------
(* Lists of players.  The seats of a list, in whatever order; a list in    *)
(* which nobody has two is as good as the set of its seats.                *)

Seated(ps) == {ps[i] : i \in DOMAIN ps}
Once(ps) == \A p, q \in DOMAIN ps : ps[p].id = ps[q].id => p = q

LEMMA ListFacts ==
    ASSUME NEW ps \in Seq(Player)
    PROVE  /\ Seated(ps) \subseteq Player
           /\ \A id : Sits(ps, id) <=> \E r \in Seated(ps) : r.id = id
           /\ \A id : id \in Humans(ps) <=> \E r \in Seated(ps) : r.id = id /\ ~r.bot
           /\ \A id : (\E p \in Active(ps) : ps[p].id = id)
                        <=> \E r \in Seated(ps) : r.id = id /\ ~r.spec
           /\ Once(ps) => \A r, s \in Seated(ps) : r.id = s.id => r = s
  BY DEF Seated, Sits, Humans, Active, Once

\* get_player_by_id finds a seat of whoever has one.
LEMMA SeatFound ==
    ASSUME NEW ps \in Seq(Player), NEW id, Sits(ps, id)
    PROVE  SeatOf(ps, id) \in DOMAIN ps /\ ps[SeatOf(ps, id)].id = id
  <1> DEFINE mine == {i \in DOMAIN ps : ps[i].id = id}
  <1>1. mine \in SUBSET Nat /\ mine # {}
    BY DEF Sits
  <1>2. PICK m \in mine : \A n \in mine : m <= n
    BY <1>1, Least
  <1> QED BY <1>2 DEF SeatOf

\* Somebody takes a new seat.
LEMMA ListAppend ==
    ASSUME NEW ps \in Seq(Player), NEW r \in Player
    PROVE  /\ Append(ps, r) \in Seq(Player)
           /\ Seated(Append(ps, r)) = Seated(ps) \cup {r}
           /\ Once(ps) /\ ~Sits(ps, r.id) => Once(Append(ps, r))
           /\ r.spec => Active(Append(ps, r)) = Active(ps)
  <1> DEFINE qs == Append(ps, r)
             n == Len(ps)
  <1>1. /\ qs \in Seq(Player) /\ n \in Nat /\ DOMAIN ps = 1..n /\ DOMAIN qs = 1..n + 1
        /\ \A i \in 1..n : qs[i] = ps[i]
        /\ qs[n + 1] = r
    OBVIOUS
  <1> HIDE DEF qs, n
  <1>2. Seated(qs) = Seated(ps) \cup {r}
    BY <1>1 DEF Seated
  <1>3. Once(ps) /\ ~Sits(ps, r.id) => Once(qs)
    BY <1>1 DEF Once, Sits
  <1>4. r.spec => Active(qs) = Active(ps)
    BY <1>1 DEF Active
  <1> QED BY <1>1, <1>2, <1>3, <1>4 DEF qs

\* A seat changes hands, or becomes a spectator's.
LEMMA ListExcept ==
    ASSUME NEW ps \in Seq(Player), NEW i \in DOMAIN ps, NEW r \in Player, r.id = ps[i].id
    PROVE  /\ [ps EXCEPT ![i] = r] \in Seq(Player)
           /\ Seated([ps EXCEPT ![i] = r]) \subseteq Seated(ps) \cup {r}
           /\ Once(ps) => /\ Once([ps EXCEPT ![i] = r])
                          /\ Seated([ps EXCEPT ![i] = r]) = (Seated(ps) \ {ps[i]}) \cup {r}
           /\ r.spec = ps[i].spec => Active([ps EXCEPT ![i] = r]) = Active(ps)
  <1> DEFINE qs == [ps EXCEPT ![i] = r]
  <1>1. /\ qs \in Seq(Player) /\ DOMAIN qs = DOMAIN ps /\ qs[i] = r
        /\ \A j \in DOMAIN ps \ {i} : qs[j] = ps[j]
    OBVIOUS
  <1> HIDE DEF qs
  <1>2. Seated(qs) \subseteq Seated(ps) \cup {r}
    BY <1>1 DEF Seated
  <1>3. Once(ps) => Once(qs)
    BY <1>1 DEF Once
  <1>4. Once(ps) => Seated(qs) = (Seated(ps) \ {ps[i]}) \cup {r}
    BY <1>1 DEF Seated, Once
  <1>5. r.spec = ps[i].spec => Active(qs) = Active(ps)
    BY <1>1 DEF Active
  <1> QED BY <1>1, <1>2, <1>3, <1>4, <1>5 DEF qs

\* Seats are removed: the others stay, and the players if only spectators go.
LEMMA ListKeeping ==
    ASSUME NEW ps \in Seq(Player), NEW kept \in SUBSET DOMAIN ps
    PROVE  /\ Keeping(ps, kept) \in Seq(Player)
           /\ Seated(Keeping(ps, kept)) = {ps[i] : i \in kept}
           /\ Once(ps) => Once(Keeping(ps, kept))
           /\ Active(ps) \subseteq kept =>
                 Cardinality(Active(Keeping(ps, kept))) = Cardinality(Active(ps))
  <1> DEFINE n == Cardinality(kept)
             qs == Keeping(ps, kept)
  <1>1. n \in Nat /\ IsFiniteSet(kept)
    BY KeepingOrder
  <1>2. PICK f \in Bijection(1..n, kept) : qs = [k \in 1..n |-> ps[f[k]]]
    BY KeepingOrder
  <1>3. /\ \A k \in 1..n : f[k] \in kept
        /\ \A k, l \in 1..n : f[k] = f[l] => k = l
        /\ \A i \in kept : \E k \in 1..n : f[k] = i
    BY DEF Bijection, Injection, Surjection, IsInjective
  <1>4. \A i \in kept : i \in DOMAIN ps /\ ps[i] \in Player
    OBVIOUS
  <1> HIDE DEF n, qs
  <1>5. qs \in Seq(Player) /\ DOMAIN qs = 1..n
    BY <1>1, <1>2, <1>3, <1>4
  <1>6. \A k \in 1..n : qs[k] = ps[f[k]]
    BY <1>2
  <1>7. Seated(qs) = {ps[i] : i \in kept}
    BY <1>3, <1>5, <1>6 DEF Seated
  <1>8. Once(ps) => Once(qs)
    BY <1>3, <1>4, <1>5, <1>6 DEF Once
  <1>9. ASSUME Active(ps) \subseteq kept
        PROVE  Cardinality(Active(qs)) = Cardinality(Active(ps))
    <2> DEFINE V == {r \in Player : ~r.spec}
    <2>4. \A k \in DOMAIN qs : qs[k] \in Player
      <3>1. \A k \in 1..n : ps[f[k]] \in Player
        BY <1>3, <1>4
      <3> QED BY <1>5, <1>6, <3>1
    <2>1. Active(qs) = Places(qs, V)
      BY <2>4 DEF Active, Places
    <2>2. Active(ps) = kept \cap Places(ps, V)
      BY <1>4, <1>9 DEF Active, Places
    <2> HIDE DEF V
    <2>3. Cardinality(Places(qs, V)) = Cardinality(kept \cap Places(ps, V))
      BY KeepingCount DEF qs
    <2> QED BY <2>1, <2>2, <2>3
  <1> QED BY <1>5, <1>7, <1>8, <1>9 DEF qs
-----------------------------------------------------------------------------
(* Types.  Only people have the seats no bot has, in memory and in every   *)
(* picture of a game, and an open table has a host.                        *)

PeopleIn(ps) == Humans(ps) \subseteq Users
PersonInv ==
    /\ \A t \in Tables : /\ PeopleIn(players[t])
                         /\ tstate[t] = "open" => host[t] \in Users
                         /\ row[t] # None => PeopleIn(row[t].players)
    /\ saved # None => PeopleIn(saved.players)
TypeInv == TypeOK /\ PersonInv

LEMMA AfterTyped ==
    ASSUME TypeInv, NEW t \in Tables, NEW u \in Users
    PROVE  /\ PlayersAfter(t, u) \in Seq(Player)
           /\ Humans(PlayersAfter(t, u)) \subseteq Humans(players[t])
  <1> DEFINE ps == players[t]
             i == SeatOf(ps, u)
             r == [ps[i] EXCEPT !.bot = TRUE]
  <1>1. ps \in Seq(Player)
    BY DEF TypeInv, TypeOK
  <1>2. CASE PlayersAfter(t, u) = ps
    BY <1>1, <1>2
  <1>3. CASE Sits(ps, u) /\ PlayersAfter(t, u) = [ps EXCEPT ![i].bot = TRUE]
    <2>1. i \in DOMAIN ps
      BY <1>1, <1>3, SeatFound
    <2>2. PlayersAfter(t, u) = [ps EXCEPT ![i] = r]
      BY <1>3
    <2> HIDE DEF i, ps
    <2>3. ps[i] \in Player
      BY <1>1, <2>1
    <2>4. r \in Player /\ r.id = ps[i].id /\ r.bot
      BY <2>3 DEF Player
    <2> HIDE DEF r
    <2>5. /\ PlayersAfter(t, u) \in Seq(Player)
          /\ Seated(PlayersAfter(t, u)) \subseteq Seated(ps) \cup {r}
      <3>1. /\ [ps EXCEPT ![i] = r] \in Seq(Player)
            /\ Seated([ps EXCEPT ![i] = r]) \subseteq Seated(ps) \cup {r}
        BY <1>1, <2>1, <2>4, ListExcept
      <3> QED BY <2>2, <3>1
    <2>6. Humans(PlayersAfter(t, u)) \subseteq Humans(ps)
      BY <1>1, <2>4, <2>5, ListFacts
    <2> QED BY <2>5, <2>6 DEF ps
  <1>4. CASE PlayersAfter(t, u) = Without(ps, u)
    <2> DEFINE kept == {j \in DOMAIN ps : ps[j].id # u}
    <2>1. PlayersAfter(t, u) = Keeping(ps, kept) /\ kept \in SUBSET DOMAIN ps
      BY <1>4 DEF Without
    <2> HIDE DEF kept, ps
    <2>2. /\ PlayersAfter(t, u) \in Seq(Player)
          /\ Seated(PlayersAfter(t, u)) = {ps[j] : j \in kept}
      BY <1>1, <2>1, ListKeeping
    <2>3. Seated(PlayersAfter(t, u)) \subseteq Seated(ps)
      BY <2>1, <2>2 DEF Seated
    <2>4. Humans(PlayersAfter(t, u)) \subseteq Humans(ps)
      BY <1>1, <2>2, <2>3, ListFacts
    <2> QED BY <2>2, <2>4 DEF ps
  <1> QED BY <1>2, <1>3, <1>4 DEF PlayersAfter

\* The heir of a host is a human of the list.
LEMMA HostTyped ==
    ASSUME TypeInv, NEW t \in Tables, NEW u \in Users
    PROVE  HostAfter(t, u) \in Users \/ HostAfter(t, u) = host[t]
  <1> DEFINE ps == PlayersAfter(t, u)
             people == {i \in DOMAIN ps : ~ps[i].bot}
             heir == CHOOSE i \in DOMAIN ps :
                        ~ps[i].bot /\ \A j \in DOMAIN ps : ~ps[j].bot => i <= j
  <1>1. CASE HostAfter(t, u) = host[t]
    BY <1>1
  <1>2. CASE Humans(ps) # {} /\ HostAfter(t, u) = ps[heir].id
    <2>1. ps \in Seq(Player) /\ Humans(ps) \subseteq Users
      BY AfterTyped DEF TypeInv, PersonInv, PeopleIn
    <2>2. people \in SUBSET Nat /\ people # {}
      BY <1>2, <2>1 DEF Humans
    <2>3. PICK m \in people : \A n \in people : m <= n
      BY <2>2, Least
    <2>4. heir \in people
      BY <2>3
    <2>5. ps[heir].id \in Humans(ps)
      BY <2>4 DEF Humans
    <2> QED BY <1>2, <2>1, <2>5
  <1> QED BY <1>1, <1>2 DEF HostAfter

LEMMA DestroyTyped ==
    ASSUME TypeInv, NEW t \in Tables, Destroy(t), UNCHANGED <<joins, doubled>>,
           saved' \in Snapshot \cup {None}, saved' # None => PeopleIn(saved'.players),
           presence' \in [Users -> {"offline", "arriving", "online"}],
           screen' \in [Users -> {"none", "menu", "game"}]
    PROVE  TypeInv'
  <1>1. /\ tstate' = [tstate EXCEPT ![t] = "gone"]
        /\ members' = [members EXCEPT ![t] = {}]
        /\ players' = [players EXCEPT ![t] = <<>>]
        /\ gusers' = [gusers EXCEPT ![t] = Nobody]
        /\ status' = [status EXCEPT ![t] = "waiting"]
        /\ host' = [host EXCEPT ![t] = None]
        /\ row' = [row EXCEPT ![t] = None]
    BY DEF Destroy
  <1>2. Nobody \in [Ids -> {"none", "user", "bot"}] /\ <<>> \in Seq(Player) /\ Humans(<<>>) = {}
    BY DEF Nobody, Humans
  <1> HIDE DEF Destroy
  <1>3. TypeOK'
    <2>1. players' \in [Tables -> Seq(Player)]
      BY <1>1, <1>2 DEF TypeInv, TypeOK
    <2>2. gusers' \in [Tables -> [Ids -> {"none", "user", "bot"}]]
      BY <1>1, <1>2 DEF TypeInv, TypeOK
    <2> QED BY <1>1, <2>1, <2>2 DEF TypeInv, TypeOK, Statuses
  <1>4. PersonInv'
    BY <1>1, <1>2 DEF TypeInv, TypeOK, PersonInv, PeopleIn
  <1> QED BY <1>3, <1>4 DEF TypeInv

LEMMA TableAfterTyped ==
    ASSUME TypeInv, NEW t \in Tables, NEW u \in Users, NEW ms \in SUBSET members[t],
           tstate[t] = "open",
           TableAfter(t, u, ms), UNCHANGED <<joins, doubled, saved>>,
           presence' \in [Users -> {"offline", "arriving", "online"}],
           screen' \in [Users -> {"none", "menu", "game"}]
    PROVE  TypeInv'
  <1>1. CASE Destroy(t)
    BY <1>1, DestroyTyped DEF TypeInv, TypeOK, PersonInv
  <1>2. CASE ~Destroy(t)
    <2>1. /\ members' = [members EXCEPT ![t] = ms]
          /\ players' = [players EXCEPT ![t] = PlayersAfter(t, u)]
          /\ gusers' = [gusers EXCEPT ![t][u] = UserAfter(t, u)]
          /\ host' = [host EXCEPT ![t] = HostAfter(t, u)]
          /\ UNCHANGED <<tstate, status, row>>
      BY <1>2 DEF TableAfter
    <2>2. UserAfter(t, u) \in {"none", "user", "bot"}
      BY DEF UserAfter, TypeInv, TypeOK, Ids
    <2>3. HostAfter(t, u) \in Users
      BY HostTyped DEF TypeInv, PersonInv
    <2>4. /\ PlayersAfter(t, u) \in Seq(Player)
          /\ Humans(PlayersAfter(t, u)) \subseteq Humans(players[t])
      BY AfterTyped
    <2>5. TypeOK'
      <3>1. players' \in [Tables -> Seq(Player)] /\ host' \in [Tables -> Users \cup {None}]
        BY <2>1, <2>3, <2>4 DEF TypeInv, TypeOK
      <3>2. gusers' \in [Tables -> [Ids -> {"none", "user", "bot"}]]
        BY <2>1, <2>2 DEF TypeInv, TypeOK
      <3>3. members' \in [Tables -> SUBSET Users]
        BY <2>1 DEF TypeInv, TypeOK
      <3> QED BY <2>1, <3>1, <3>2, <3>3 DEF TypeInv, TypeOK
    <2>6. PersonInv'
      BY <2>1, <2>3, <2>4 DEF TypeInv, TypeOK, PersonInv, PeopleIn
    <2> QED BY <2>5, <2>6 DEF TypeInv
  <1> QED BY <1>1, <1>2

\* A table gets another list of players; no seat is a person's who is none.
LEMMA ListTyped ==
    ASSUME TypeInv, NEW t \in Tables, NEW qs \in Seq(Player), PeopleIn(qs),
           players' = [players EXCEPT ![t] = qs],
           tstate' \in [Tables -> {"unused", "open", "gone"}],
           members' \in [Tables -> SUBSET Users],
           gusers' \in [Tables -> [Ids -> {"none", "user", "bot"}]],
           status' \in [Tables -> Statuses],
           host' \in [Tables -> Users \cup {None}],
           \A s \in Tables : tstate'[s] = "open" => host'[s] \in Users,
           presence' \in [Users -> {"offline", "arriving", "online"}],
           screen' \in [Users -> {"none", "menu", "game"}],
           joins' \in [Users -> 0..MaxJoins],
           doubled' \in BOOLEAN,
           row' = row, saved' \in {saved, None}
    PROVE  TypeInv'
  <1>1. players' \in [Tables -> Seq(Player)]
    BY DEF TypeInv, TypeOK
  <1>2. TypeOK'
    BY <1>1 DEF TypeInv, TypeOK
  <1>3. \A s \in Tables : players'[s] = IF s = t THEN qs ELSE players[s]
    BY DEF TypeInv, TypeOK
  <1>4. PersonInv'
    BY <1>3 DEF TypeInv, PersonInv, PeopleIn
  <1> QED BY <1>2, <1>4 DEF TypeInv

\* The same when nothing but the players and the game's users changes.
LEMMA SeatsTyped ==
    ASSUME TypeInv, NEW t \in Tables, NEW qs \in Seq(Player), PeopleIn(qs),
           players' = [players EXCEPT ![t] = qs],
           NEW i \in Ids, NEW g \in {"none", "user", "bot"},
           gusers' = [gusers EXCEPT ![t][i] = g] \/ gusers' = gusers,
           presence' \in [Users -> {"offline", "arriving", "online"}],
           screen' \in [Users -> {"none", "menu", "game"}],
           UNCHANGED <<tstate, members, status, host, joins, doubled, row, saved>>
    PROVE  TypeInv'
  <1>1. gusers' \in [Tables -> [Ids -> {"none", "user", "bot"}]]
    <2>1. gusers \in [Tables -> [Ids -> {"none", "user", "bot"}]]
      BY DEF TypeInv, TypeOK
    <2>2. CASE gusers' = [gusers EXCEPT ![t][i] = g]
      BY ONLY <2>1, <2>2, t \in Tables, i \in Ids, g \in {"none", "user", "bot"}
    <2> QED BY <2>1, <2>2
  <1>2. \A s \in Tables : tstate'[s] = "open" => host'[s] \in Users
    BY DEF TypeInv, PersonInv
  <1>3. /\ tstate' \in [Tables -> {"unused", "open", "gone"}]
        /\ members' \in [Tables -> SUBSET Users]
        /\ status' \in [Tables -> Statuses]
        /\ host' \in [Tables -> Users \cup {None}]
        /\ joins' \in [Users -> 0..MaxJoins]
        /\ doubled' \in BOOLEAN
    BY DEF TypeInv, TypeOK
  <1> QED BY <1>1, <1>2, <1>3, ListTyped

\* One seat of a list becomes another of the same person's.
LEMMA SeatTyped ==
    ASSUME TypeInv, NEW t \in Tables, NEW u \in Users, Sits(players[t], u),
           NEW r \in Player, r.id = u
    PROVE  /\ [players[t] EXCEPT ![SeatOf(players[t], u)] = r] \in Seq(Player)
           /\ PeopleIn([players[t] EXCEPT ![SeatOf(players[t], u)] = r])
  <1> DEFINE ps == players[t]
             i == SeatOf(ps, u)
  <1>1. ps \in Seq(Player) /\ PeopleIn(ps)
    BY DEF TypeInv, TypeOK, PersonInv
  <1>2. i \in DOMAIN ps /\ ps[i].id = u
    BY <1>1, SeatFound
  <1> HIDE DEF ps, i
  <1>3. /\ [ps EXCEPT ![i] = r] \in Seq(Player)
        /\ Seated([ps EXCEPT ![i] = r]) \subseteq Seated(ps) \cup {r}
    BY <1>1, <1>2, ListExcept
  <1>4. PeopleIn([ps EXCEPT ![i] = r])
    <2> DEFINE qs == [ps EXCEPT ![i] = r]
    <2>1. qs \in Seq(Player) /\ Seated(qs) \subseteq Seated(ps) \cup {r}
      BY <1>3
    <2> HIDE DEF qs
    <2>2. ASSUME NEW v \in Humans(qs) PROVE v \in Users
      <3>1. PICK q \in Seated(qs) : q.id = v /\ ~q.bot
        BY <2>1, ListFacts
      <3> QED BY <1>1, <2>1, <3>1, ListFacts DEF PeopleIn
    <2> QED BY <2>2 DEF PeopleIn, qs
  <1> QED BY <1>3, <1>4 DEF ps, i

LEMMA ArriveTyped ==
    ASSUME TypeInv, NEW u \in Users, Arrive(u)
    PROVE  TypeInv'
  <1>1. /\ presence' = [presence EXCEPT ![u] = "online"]
        /\ UNCHANGED <<tstate, members, status, host, joins, doubled, row, saved>>
    BY DEF Arrive, dbVars
  <1>2. presence' \in [Users -> {"offline", "arriving", "online"}]
    BY <1>1 DEF TypeInv, TypeOK
  <1>3. CASE UNCHANGED <<players, gusers>> /\ (screen' = screen \/ screen' = [screen EXCEPT ![u] = "menu"])
    BY <1>1, <1>2, <1>3 DEF TypeInv, TypeOK, PersonInv
  <1>4. ASSUME NEW t \in At(u), Sits(players[t], u),
               players' = [players EXCEPT ![t][SeatOf(players[t], u)].bot = FALSE],
               gusers' = [gusers EXCEPT ![t][u] = "user"],
               screen' = [screen EXCEPT ![u] = "game"]
        PROVE  TypeInv'
    <2> DEFINE i == SeatOf(players[t], u)
               r == [players[t][i] EXCEPT !.bot = FALSE]
    <2>1. t \in Tables /\ players[t] \in Seq(Player)
      BY DEF At, TypeInv, TypeOK
    <2>2. i \in DOMAIN players[t] /\ players[t][i].id = u
      BY <1>4, <2>1, SeatFound
    <2>3. players' = [players EXCEPT ![t] = [players[t] EXCEPT ![i] = r]]
      BY <1>4
    <2> HIDE DEF i
    <2>4. players[t][i] \in Player
      BY <2>1, <2>2
    <2>5. r \in Player /\ r.id = u
      BY <2>2, <2>4 DEF Player
    <2> HIDE DEF r
    <2>6. [players[t] EXCEPT ![i] = r] \in Seq(Player) /\ PeopleIn([players[t] EXCEPT ![i] = r])
      BY <1>4, <2>1, <2>5, SeatTyped DEF i
    <2>7. screen' \in [Users -> {"none", "menu", "game"}] /\ u \in Ids
      BY <1>4 DEF TypeInv, TypeOK, Ids
    <2> QED BY <1>1, <1>2, <1>4, <2>1, <2>3, <2>6, <2>7, SeatsTyped
  <1> QED BY <1>3, <1>4 DEF Arrive

\* A list with one seat more, of a bot or of one of the users.
LEMMA GrownTyped ==
    ASSUME TypeInv, NEW t \in Tables, NEW r \in Player, r.bot \/ r.id \in Users
    PROVE  /\ Append(players[t], r) \in Seq(Player)
           /\ PeopleIn(Append(players[t], r))
  <1> DEFINE ps == players[t]
             qs == Append(ps, r)
  <1>1. ps \in Seq(Player) /\ PeopleIn(ps)
    BY DEF TypeInv, TypeOK, PersonInv
  <1> HIDE DEF ps
  <1>2. qs \in Seq(Player) /\ Seated(qs) = Seated(ps) \cup {r}
    BY <1>1, ListAppend
  <1> HIDE DEF qs
  <1>3. ASSUME NEW v \in Humans(qs) PROVE v \in Users
    <2>1. PICK q \in Seated(qs) : q.id = v /\ ~q.bot
      BY <1>2, ListFacts
    <2> QED BY <1>1, <1>2, <2>1, ListFacts DEF PeopleIn
  <1> QED BY <1>2, <1>3 DEF PeopleIn, qs, ps

LEMMA FewerTyped ==
    ASSUME TypeInv, NEW t \in Tables, NEW kept \in SUBSET DOMAIN players[t]
    PROVE  /\ Keeping(players[t], kept) \in Seq(Player)
           /\ PeopleIn(Keeping(players[t], kept))
  <1> DEFINE ps == players[t]
             qs == Keeping(ps, kept)
  <1>1. ps \in Seq(Player) /\ PeopleIn(ps)
    BY DEF TypeInv, TypeOK, PersonInv
  <1>2. kept \in SUBSET DOMAIN ps
    OBVIOUS
  <1> HIDE DEF ps
  <1>3. qs \in Seq(Player) /\ Seated(qs) = {ps[j] : j \in kept}
    BY <1>1, <1>2, ListKeeping
  <1> HIDE DEF qs
  <1>4. Seated(qs) \subseteq Seated(ps)
    BY <1>2, <1>3 DEF Seated
  <1>5. ASSUME NEW v \in Humans(qs) PROVE v \in Users
    <2>1. PICK q \in Seated(qs) : q.id = v /\ ~q.bot
      BY <1>3, ListFacts
    <2> QED BY <1>1, <1>4, <2>1, ListFacts DEF PeopleIn
  <1> QED BY <1>3, <1>5 DEF PeopleIn, qs, ps

LEMMA CreateTyped ==
    ASSUME TypeInv, NEW u \in Users, NEW t \in Tables, Create(u, t)
    PROVE  TypeInv'
  <1> DEFINE qs == <<[id |-> u, bot |-> FALSE, spec |-> FALSE]>>
  <1>1. [id |-> u, bot |-> FALSE, spec |-> FALSE] \in Player
    BY DEF Player, Ids
  <1>2. qs \in Seq(Player) /\ PeopleIn(qs)
    BY <1>1 DEF PeopleIn, Humans
  <1> HIDE DEF qs
  <1>3. gusers' \in [Tables -> [Ids -> {"none", "user", "bot"}]]
    <2>1. gusers \in [Tables -> [Ids -> {"none", "user", "bot"}]] /\ u \in Ids
      BY DEF TypeInv, TypeOK, Ids
    <2>2. gusers' = [gusers EXCEPT ![t][u] = "user"]
      BY DEF Create
    <2> QED BY ONLY <2>1, <2>2, t \in Tables
  <1>4. joins' \in [Users -> 0..MaxJoins]
    <2>1. joins \in [Users -> 0..MaxJoins] /\ MaxJoins \in Nat
      BY SeatAssumption DEF TypeInv, TypeOK
    <2>2. joins' = [joins EXCEPT ![u] = @ + 1] /\ joins[u] < MaxJoins
      BY DEF Create
    <2> QED BY <2>1, <2>2
  <1>5. /\ tstate' = [tstate EXCEPT ![t] = "open"]
        /\ members' = [members EXCEPT ![t] = {u}]
        /\ players' = [players EXCEPT ![t] = qs]
        /\ status' = [status EXCEPT ![t] = "waiting"]
        /\ host' = [host EXCEPT ![t] = u]
        /\ screen' = [screen EXCEPT ![u] = "game"]
        /\ UNCHANGED <<presence, doubled, row, saved>>
    BY DEF Create, dbVars, qs
  <1>6. /\ tstate' \in [Tables -> {"unused", "open", "gone"}]
        /\ members' \in [Tables -> SUBSET Users]
        /\ status' \in [Tables -> Statuses]
        /\ host' \in [Tables -> Users \cup {None}]
        /\ presence' \in [Users -> {"offline", "arriving", "online"}]
        /\ screen' \in [Users -> {"none", "menu", "game"}]
        /\ doubled' \in BOOLEAN
    BY <1>5 DEF TypeInv, TypeOK, Statuses
  <1>7. \A s \in Tables : tstate'[s] = "open" => host'[s] \in Users
    BY <1>5 DEF TypeInv, TypeOK, PersonInv
  <1> QED BY <1>2, <1>3, <1>4, <1>5, <1>6, <1>7, ListTyped

LEMMA JoinTyped ==
    ASSUME TypeInv, NEW u \in Users, NEW t \in Tables, Join(u, t)
    PROVE  TypeInv'
  <1>1. PICK full \in BOOLEAN : players' = [players EXCEPT ![t] =
                         Append(players[t], [id |-> u, bot |-> FALSE, spec |-> full])]
    BY DEF Join
  <1> DEFINE r == [id |-> u, bot |-> FALSE, spec |-> full]
             qs == Append(players[t], r)
  <1>2. r \in Player /\ r.id = u
    BY DEF Player, Ids
  <1> HIDE DEF r
  <1>3. qs \in Seq(Player) /\ PeopleIn(qs) /\ players' = [players EXCEPT ![t] = qs]
    BY <1>1, <1>2, GrownTyped DEF r
  <1> HIDE DEF qs
  <1>4. gusers' \in [Tables -> [Ids -> {"none", "user", "bot"}]]
    <2>1. gusers \in [Tables -> [Ids -> {"none", "user", "bot"}]] /\ u \in Ids
      BY DEF TypeInv, TypeOK, Ids
    <2>2. gusers' = [gusers EXCEPT ![t][u] = "user"]
      BY DEF Join
    <2> QED BY ONLY <2>1, <2>2, t \in Tables
  <1>5. joins' \in [Users -> 0..MaxJoins]
    <2>1. joins \in [Users -> 0..MaxJoins] /\ MaxJoins \in Nat
      BY SeatAssumption DEF TypeInv, TypeOK
    <2>2. joins' = [joins EXCEPT ![u] = @ + 1] /\ joins[u] < MaxJoins
      BY DEF Join
    <2> QED BY <2>1, <2>2
  <1>6. doubled' \in BOOLEAN
    <2>1. doubled' = (doubled \/ Sits(players[t], u))
      BY DEF Join
    <2> QED BY <2>1
  <1>7. /\ members' = [members EXCEPT ![t] = members[t] \cup {u}]
        /\ screen' = [screen EXCEPT ![u] = "game"]
        /\ UNCHANGED <<tstate, status, host, presence, row, saved>>
    BY DEF Join, dbVars
  <1>8. /\ tstate' \in [Tables -> {"unused", "open", "gone"}]
        /\ members' \in [Tables -> SUBSET Users]
        /\ status' \in [Tables -> Statuses]
        /\ host' \in [Tables -> Users \cup {None}]
        /\ presence' \in [Users -> {"offline", "arriving", "online"}]
        /\ screen' \in [Users -> {"none", "menu", "game"}]
    BY <1>7 DEF TypeInv, TypeOK
  <1>9. \A s \in Tables : tstate'[s] = "open" => host'[s] \in Users
    BY <1>7 DEF TypeInv, TypeOK, PersonInv
  <1> QED BY <1>3, <1>4, <1>5, <1>6, <1>7, <1>8, <1>9, ListTyped

LEMMA LobbyTyped ==
    ASSUME TypeInv, NEW u \in Users, NEW t \in Tables,
           \/ \E b \in Bots : AddBot(u, t, b)
           \/ RemoveBot(u, t) \/ ToggleSpectator(u, t) \/ Start(u, t)
    PROVE  TypeInv'
  <1> USE DEF tableVars, userVars, dbVars
  <1>0. /\ presence \in [Users -> {"offline", "arriving", "online"}]
        /\ screen \in [Users -> {"none", "menu", "game"}]
    BY DEF TypeInv, TypeOK
  <1>1. ASSUME NEW b \in Bots, AddBot(u, t, b)
        PROVE  TypeInv'
    <2> DEFINE r == [id |-> b, bot |-> TRUE, spec |-> FALSE]
    <2>1. r \in Player /\ r.bot /\ b \in Ids
      BY DEF Player, Ids
    <2>2. /\ players' = [players EXCEPT ![t] = Append(players[t], r)]
          /\ gusers' = [gusers EXCEPT ![t][b] = "bot"]
          /\ UNCHANGED <<tstate, members, status, host, presence, screen, joins, doubled, row, saved>>
      BY <1>1 DEF AddBot
    <2> HIDE DEF r
    <2>3. Append(players[t], r) \in Seq(Player) /\ PeopleIn(Append(players[t], r))
      BY <2>1, GrownTyped
    <2> QED BY <1>0, <2>1, <2>2, <2>3, SeatsTyped
  <1>2. CASE RemoveBot(u, t)
    <2> DEFINE bots == {i \in DOMAIN players[t] : players[t][i].bot}
               last == CHOOSE i \in bots : \A j \in bots : j <= i
               kept == DOMAIN players[t] \ {last}
    <2>1. /\ players' = [players EXCEPT ![t] = Keeping(players[t], kept)]
          /\ gusers' = [gusers EXCEPT ![t][players[t][last].id] = "none"]
          /\ UNCHANGED <<tstate, members, status, host, presence, screen, joins, doubled, row, saved>>
          /\ bots # {}
      BY <1>2 DEF RemoveBot
    <2>2. Keeping(players[t], kept) \in Seq(Player) /\ PeopleIn(Keeping(players[t], kept))
      BY FewerTyped
    <2>3. gusers' \in [Tables -> [Ids -> {"none", "user", "bot"}]]
      <3>1. gusers \in [Tables -> [Ids -> {"none", "user", "bot"}]]
        BY DEF TypeInv, TypeOK
      <3> HIDE DEF last
      <3> QED BY ONLY <2>1, <3>1, t \in Tables
    <2>4. \A s \in Tables : tstate'[s] = "open" => host'[s] \in Users
      BY <2>1 DEF TypeInv, PersonInv
    <2>5. /\ tstate' \in [Tables -> {"unused", "open", "gone"}]
          /\ members' \in [Tables -> SUBSET Users]
          /\ status' \in [Tables -> Statuses]
          /\ host' \in [Tables -> Users \cup {None}]
          /\ joins' \in [Users -> 0..MaxJoins]
          /\ doubled' \in BOOLEAN
      BY <2>1 DEF TypeInv, TypeOK
    <2> HIDE DEF kept, last, bots
    <2> QED BY <1>0, <2>1, <2>2, <2>3, <2>4, <2>5, ListTyped
  <1>3. CASE ToggleSpectator(u, t)
    <2> DEFINE i == SeatOf(players[t], u)
               r == [players[t][i] EXCEPT !.spec = ~players[t][i].spec]
    <2>1. players[t] \in Seq(Player) /\ u \in Ids
      BY DEF TypeInv, TypeOK, Ids
    <2>2. /\ Sits(players[t], u)
          /\ players' = [players EXCEPT ![t] = [players[t] EXCEPT ![i] = r]]
          /\ UNCHANGED <<tstate, members, gusers, status, host, presence, screen, joins, doubled, row, saved>>
      BY <1>3 DEF ToggleSpectator
    <2>3. i \in DOMAIN players[t] /\ players[t][i].id = u
      BY <2>1, <2>2, SeatFound
    <2> HIDE DEF i
    <2>4. players[t][i] \in Player
      BY <2>1, <2>3
    <2>5. r \in Player /\ r.id = u
      BY <2>3, <2>4 DEF Player
    <2> HIDE DEF r
    <2>6. [players[t] EXCEPT ![i] = r] \in Seq(Player) /\ PeopleIn([players[t] EXCEPT ![i] = r])
      BY <2>2, <2>5, SeatTyped DEF i
    <2>7. presence' = presence /\ screen' = screen
      BY <2>2
    <2> QED BY <1>0, <2>1, <2>2, <2>6, <2>7, SeatsTyped
  <1>4. CASE Start(u, t)
    BY <1>4 DEF Start, TypeInv, TypeOK, PersonInv, Statuses
  <1> QED BY <1>1, <1>2, <1>3, <1>4

\* A picture of an open table is one that can be loaded.
LEMMA PictureTyped ==
    ASSUME TypeInv, NEW t \in Tables, tstate[t] = "open"
    PROVE  /\ Picture(t) \in Snapshot
           /\ PeopleIn(Picture(t).players)
  <1>1. /\ members[t] \in SUBSET Users /\ players[t] \in Seq(Player)
        /\ status[t] \in Statuses /\ host[t] \in Users /\ PeopleIn(players[t])
    BY DEF TypeInv, TypeOK, PersonInv
  <1> QED BY <1>1 DEF Picture, Snapshot

LEMMA SaveTyped ==
    ASSUME TypeInv, NEW u \in Users, NEW t \in Tables, Save(u, t)
    PROVE  TypeInv'
  <1>1. tstate[t] = "open" /\ Destroy(t) /\ saved' = Picture(t)
        /\ UNCHANGED <<presence, joins, doubled>>
    BY DEF Save, HostAt, At
  <1>2. screen' = [v \in Users |-> IF v \in SentHome(players[t]) THEN "menu" ELSE screen[v]]
    BY DEF Save
  <1>3. /\ presence' \in [Users -> {"offline", "arriving", "online"}]
        /\ screen' \in [Users -> {"none", "menu", "game"}]
    BY <1>1, <1>2 DEF TypeInv, TypeOK
  <1> QED BY <1>1, <1>3, PictureTyped, DestroyTyped

LEMMA RestoreTyped ==
    ASSUME TypeInv, NEW u \in Users, NEW t \in Tables, Restore(u, t)
    PROVE  TypeInv'
  <1> DEFINE qs == saved.players
             hs == Humans(qs)
  <1>1. /\ saved \in Snapshot /\ saved # None
        /\ qs \in Seq(Player) /\ PeopleIn(qs) /\ saved.status \in Statuses
    BY DEF Restore, TypeInv, TypeOK, PersonInv, Snapshot
  <1>2. /\ tstate' = [tstate EXCEPT ![t] = "open"]
        /\ members' = [members EXCEPT ![t] = hs \cup {u}]
        /\ players' = [players EXCEPT ![t] = qs]
        /\ gusers' = [gusers EXCEPT ![t] = [i \in Ids |-> IF i \in hs THEN "user"
                                                   ELSE IF Sits(qs, i) THEN "bot" ELSE "none"]]
        /\ screen' = [v \in Users |-> IF v \in hs THEN "game" ELSE screen[v]]
        /\ status' = [status EXCEPT ![t] = saved.status]
        /\ host' = [host EXCEPT ![t] = u]
        /\ saved' = None
        /\ UNCHANGED <<presence, joins, doubled, row>>
    BY DEF Restore
  <1>3. hs \cup {u} \in SUBSET Users
    BY <1>1 DEF PeopleIn
  <1> HIDE DEF qs, hs
  <1>4. gusers' \in [Tables -> [Ids -> {"none", "user", "bot"}]]
    BY <1>2 DEF TypeInv, TypeOK
  <1>5. /\ tstate' \in [Tables -> {"unused", "open", "gone"}]
        /\ members' \in [Tables -> SUBSET Users]
        /\ status' \in [Tables -> Statuses]
        /\ host' \in [Tables -> Users \cup {None}]
    BY <1>1, <1>2, <1>3 DEF TypeInv, TypeOK
  <1>6. /\ presence' \in [Users -> {"offline", "arriving", "online"}]
        /\ screen' \in [Users -> {"none", "menu", "game"}]
        /\ joins' \in [Users -> 0..MaxJoins]
        /\ doubled' \in BOOLEAN
    BY <1>2 DEF TypeInv, TypeOK
  <1>7. \A s \in Tables : tstate'[s] = "open" => host'[s] \in Users
    BY <1>2 DEF TypeInv, TypeOK, PersonInv
  <1> QED BY <1>1, <1>2, <1>4, <1>5, <1>6, <1>7, ListTyped

LEMMA PersistTyped ==
    ASSUME TypeInv, Persist
    PROVE  TypeInv'
  <1>1. /\ row' = [t \in Tables |-> IF tstate[t] = "open" THEN Picture(t) ELSE row[t]]
        /\ UNCHANGED <<tstate, members, players, gusers, status, host, presence, screen,
                       joins, doubled, saved>>
    BY DEF Persist, tableVars, userVars
  <1>2. row' \in [Tables -> Snapshot \cup {None}]
        /\ \A t \in Tables : row'[t] # None => PeopleIn(row'[t].players)
    BY <1>1, PictureTyped DEF TypeInv, TypeOK, PersonInv
  <1> QED BY <1>1, <1>2 DEF TypeInv, TypeOK, PersonInv

LEMMA RestartTyped ==
    ASSUME TypeInv, Restart
    PROVE  TypeInv'
  <1>1. \A t \in Tables : row[t] # None =>
            /\ row[t].members \in SUBSET Users /\ row[t].players \in Seq(Player)
            /\ row[t].status \in Statuses /\ row[t].host \in Users
            /\ PeopleIn(row[t].players)
    BY DEF TypeInv, TypeOK, PersonInv, Snapshot
  <1>2. <<>> \in Seq(Player) /\ PeopleIn(<<>>)
    BY DEF PeopleIn, Humans
  <1>3. /\ tstate' \in [Tables -> {"unused", "open", "gone"}]
        /\ members' \in [Tables -> SUBSET Users]
        /\ presence' \in [Users -> {"offline", "arriving", "online"}]
        /\ screen' \in [Users -> {"none", "menu", "game"}]
    BY <1>1 DEF Restart, TypeInv, TypeOK
  <1>4. /\ players' \in [Tables -> Seq(Player)]
        /\ \A t \in Tables : PeopleIn(players'[t])
    BY <1>1, <1>2 DEF Restart
  <1>5. gusers' \in [Tables -> [Ids -> {"none", "user", "bot"}]]
    <2> DEFINE gu(t) == IF row[t] # None THEN LoadedUsers(row[t].players) ELSE Nobody
    <2>1. gusers' = [t \in Tables |-> gu(t)]
      BY DEF Restart
    <2>2. \A t \in Tables : gu(t) \in [Ids -> {"none", "user", "bot"}]
      BY DEF LoadedUsers, Nobody
    <2> HIDE DEF gu
    <2> QED BY <2>1, <2>2
  <1>6. /\ status' \in [Tables -> Statuses]
        /\ host' \in [Tables -> Users \cup {None}]
        /\ \A t \in Tables : tstate'[t] = "open" => host'[t] \in Users
    BY <1>1 DEF Restart, Statuses
  <1>7. UNCHANGED <<joins, doubled, row, saved>>
    BY DEF Restart, dbVars
  <1>8. TypeOK'
    BY <1>3, <1>4, <1>5, <1>6, <1>7 DEF TypeInv, TypeOK
  <1>9. PersonInv'
    BY <1>4, <1>6, <1>7 DEF TypeInv, PersonInv
  <1> QED BY <1>8, <1>9 DEF TypeInv

\* Whoever leaves or is cut off.
LEMMA LeaverTyped ==
    ASSUME TypeInv, NEW u \in Users, Disconnect(u) \/ \E t \in Tables : Leave(u, t)
    PROVE  TypeInv'
  <1>1. ASSUME NEW t \in At(u), NEW ms \in SUBSET members[t], NEW mine \in {"none", "menu"},
               TableAfter(t, u, ms), ScreensAfter(t, u, ms, mine),
               presence' = presence \/ presence' = [presence EXCEPT ![u] = "offline"],
               UNCHANGED <<joins, doubled, saved>>
        PROVE  TypeInv'
    <2>1. t \in Tables /\ tstate[t] = "open"
      BY DEF At
    <2>2. /\ presence' \in [Users -> {"offline", "arriving", "online"}]
          /\ screen' \in [Users -> {"none", "menu", "game"}]
      BY <1>1 DEF TypeInv, TypeOK, ScreensAfter
    <2> QED BY <1>1, <2>1, <2>2, TableAfterTyped
  <1>2. CASE \E t \in Tables : Leave(u, t)
    <2>1. PICK t \in Tables : Leave(u, t)
      BY <1>2
    <2>2. /\ t \in At(u) /\ members[t] \ {u} \in SUBSET members[t]
          /\ TableAfter(t, u, members[t] \ {u})
          /\ ScreensAfter(t, u, members[t] \ {u}, "menu")
          /\ UNCHANGED <<presence, joins, doubled, saved>>
      BY <2>1 DEF Leave
    <2> QED BY <1>1, <2>2
  <1>3. CASE Disconnect(u) /\ At(u) # {}
    <2>1. PICK t \in At(u) : \E ms \in SUBSET members[t] :
            TableAfter(t, u, ms) /\ ScreensAfter(t, u, ms, "none")
      BY <1>3 DEF Disconnect
    <2>2. presence' = [presence EXCEPT ![u] = "offline"] /\ UNCHANGED <<joins, doubled, saved>>
      BY <1>3 DEF Disconnect
    <2> QED BY <1>1, <2>1, <2>2
  <1>4. CASE Disconnect(u) /\ At(u) = {}
    <2>1. /\ presence' = [presence EXCEPT ![u] = "offline"]
          /\ screen' = [screen EXCEPT ![u] = "none"]
          /\ UNCHANGED <<tstate, members, players, gusers, status, host, row, joins, doubled, saved>>
      BY <1>4 DEF Disconnect, tableVars
    <2> QED BY <2>1 DEF TypeInv, TypeOK, PersonInv
  <1> QED BY <1>2, <1>3, <1>4

LEMMA FinishTyped ==
    ASSUME TypeInv, NEW t \in Tables, Finish(t)
    PROVE  TypeInv'
  <1>1. /\ UNCHANGED <<presence, screen, joins, doubled, saved>>
        /\ presence \in [Users -> {"offline", "arriving", "online"}]
        /\ screen \in [Users -> {"none", "menu", "game"}]
        /\ saved \in Snapshot \cup {None}
        /\ saved # None => PeopleIn(saved.players)
    BY DEF Finish, userVars, TypeInv, TypeOK, PersonInv
  <1>2. CASE Destroy(t)
    BY <1>1, <1>2, DestroyTyped
  <1>3. CASE /\ status' = [status EXCEPT ![t] = "finished"]
             /\ UNCHANGED <<tstate, members, players, gusers, host, row>>
    BY <1>1, <1>3 DEF TypeInv, TypeOK, PersonInv, Statuses
  <1> QED BY <1>2, <1>3 DEF Finish

LEMMA TypeInit == Init => TypeInv
  <1> SUFFICES ASSUME Init PROVE TypeInv
    OBVIOUS
  <1>1. 0 \in 0..MaxJoins
    BY SeatAssumption
  <1>2. Nobody \in [Ids -> {"none", "user", "bot"}] /\ <<>> \in Seq(Player) /\ PeopleIn(<<>>)
    BY DEF Nobody, PeopleIn, Humans
  <1>3. TypeOK
    BY <1>1, <1>2 DEF Init, TypeOK, Statuses
  <1>4. PersonInv
    BY <1>2 DEF Init, PersonInv
  <1> QED BY <1>3, <1>4 DEF TypeInv

LEMMA TypeStep == TypeInv /\ [Next]_vars => TypeInv'
  <1> SUFFICES ASSUME TypeInv, [Next]_vars PROVE TypeInv'
    OBVIOUS
  <1>1. ASSUME NEW u \in Users, Login(u) PROVE TypeInv'
    <2>1. /\ presence' = [presence EXCEPT ![u] = "arriving"]
          /\ UNCHANGED <<tstate, members, players, gusers, status, host, screen, joins, doubled,
                         row, saved>>
      BY <1>1 DEF Login, tableVars, dbVars
    <2> QED BY <2>1 DEF TypeInv, TypeOK, PersonInv
  <1>2. CASE UNCHANGED vars
    BY <1>2 DEF vars, tableVars, userVars, dbVars, TypeInv, TypeOK, PersonInv
  <1> QED
    BY <1>1, <1>2, ArriveTyped, LeaverTyped, CreateTyped, JoinTyped, LobbyTyped, SaveTyped,
       RestoreTyped, FinishTyped, PersistTyped, RestartTyped DEF Next

LEMMA TypeInvHolds == Spec => []TypeInv
  BY TypeInit, TypeStep, PTL DEF Spec

\* The variables keep their types: whatever is removed, restored or handed
\* over, a list of players stays a list of players and a picture of a table
\* stays one that can be loaded.
THEOREM SeatsTypeCorrect == Spec => []TypeOK
  <1>1. TypeInv => TypeOK
    BY DEF TypeInv
  <1> QED BY <1>1, TypeInvHolds, PTL

-----------------------------------------------------------------------------
(* The books of a table, as long as nobody has a second seat.              *)

ActiveIds(ps) == {r.id : r \in {q \in Seated(ps) : ~q.spec}}

\* A list of players is in order: one seat for everybody, no leaver's seat in
\* a lobby, a legal number of players in a running game.
ListSound(ps, st) ==
    /\ Once(ps)
    /\ st = "waiting" => \A r \in Seated(ps) : r.bot => r.id \in Bots
    /\ st = "playing" => Cardinality(Active(ps)) \in MinPlayers..MaxPlayers

\* The members, the players and the packets of a table agree.  In particular a
\* member who is online does not watch a bot play for him.
BooksAgree(ps, ms, gu) ==
    /\ Humans(ps) \subseteq ms
    /\ \A r \in Seated(ps) : r.bot <=> gu[r.id] = "bot"
    /\ \A u \in Users : gu[u] = "user" => u \in Humans(ps) /\ InServer(u)
    /\ \A r \in Seated(ps) : r.id \in ms /\ presence[r.id] = "online" => ~r.bot
TableSound(t) ==
    tstate[t] = "open" => /\ ListSound(players[t], status[t])
                          /\ BooksAgree(players[t], members[t], gusers[t])

\* A row can be loaded, and a running game loaded from an older row has the
\* seats it has now.
PictureSound(p) == ListSound(p.players, p.status) /\ Humans(p.players) \subseteq p.members
RowSound(t) ==
    row[t] # None =>
        /\ PictureSound(row[t])
        /\ row[t].status = "playing" =>
              /\ status[t] \in {"playing", "finished"}
              /\ status[t] = "playing" => ActiveIds(players[t]) \subseteq ActiveIds(row[t].players)
SavedSound == saved # None => PictureSound(saved) /\ saved.host \in Humans(saved.players)

ScreenSound(u) ==
    /\ presence[u] = "offline" => screen[u] = "none"
    /\ InServer(u) /\ screen[u] = "menu" => At(u) = {}
    /\ InServer(u) /\ screen[u] = "game" => \E t \in At(u) : gusers[t][u] = "user"

\* A table that is still to be created talks to nobody.
FreshInv == \A t \in Tables : tstate[t] = "unused" => gusers[t] = Nobody

AllSound ==
    /\ \A t \in Tables : TableSound(t) /\ RowSound(t)
    /\ SavedSound
    /\ \A u \in Users : ScreenSound(u)
SeatInv == TypeInv /\ TableInv /\ FreshInv /\ (~doubled => AllSound)

\* What a step does to the players of a running game.
ActiveKept ==
    \A t \in Tables :
        /\ tstate[t] = "open" /\ status[t] = "playing"
        /\ tstate'[t] = "open" /\ status'[t] = "playing"
        => ActiveIds(players[t]) \subseteq ActiveIds(players'[t])
-----------------------------------------------------------------------------
\* The list after u has left: everybody else has the seat he had, and u has
\* none or, in a running game, one that is a bot's.
LEMMA LeaverList ==
    ASSUME TypeInv, NEW t \in Tables, NEW u \in Users, ListSound(players[t], status[t]),
           \A r \in Seated(players[t]) : r.id = u => ~r.bot
    PROVE  /\ ListSound(PlayersAfter(t, u), status[t])
           /\ \A r \in Seated(PlayersAfter(t, u)) :
                 \/ r \in Seated(players[t]) /\ r.id # u
                 \/ r.id = u /\ r.bot /\ Sits(players[t], u)
           /\ \A r \in Seated(players[t]) : r.id # u => r \in Seated(PlayersAfter(t, u))
           /\ status[t] = "playing" => ActiveIds(PlayersAfter(t, u)) = ActiveIds(players[t])
  <1> DEFINE ps == players[t]
             i == SeatOf(ps, u)
             r == [ps[i] EXCEPT !.bot = TRUE]
  <1>1. ps \in Seq(Player) /\ Once(ps)
    BY DEF TypeInv, TypeOK, ListSound
  <1>2. ListSound(ps, status[t]) /\ \A q \in Seated(ps) : q.id = u => ~q.bot
    OBVIOUS
  <1>3. Sits(ps, u) => i \in DOMAIN ps /\ ps[i].id = u
    BY <1>1, SeatFound
  <1>4. CASE ~Sits(ps, u)
    <2>1. PlayersAfter(t, u) = ps
      BY <1>4 DEF PlayersAfter
    <2>2. \A q \in Seated(ps) : q.id # u
      BY <1>1, <1>4, ListFacts
    <2> QED BY <1>2, <2>1, <2>2 DEF ps
  <1>5. CASE Sits(ps, u) /\ status[t] = "playing" /\ ~ps[i].bot /\ ~ps[i].spec
    <2>1. PlayersAfter(t, u) = [ps EXCEPT ![i] = r]
      BY <1>5 DEF PlayersAfter
    <2> DEFINE qs == [ps EXCEPT ![i] = r]
    <2> HIDE DEF i, ps
    <2>2. ps[i] \in Player /\ ps[i] \in Seated(ps) /\ ps[i].id = u
      BY <1>1, <1>3, <1>5 DEF Seated
    <2>3. r \in Player /\ r.id = ps[i].id /\ r.bot /\ r.spec = ps[i].spec
      BY <2>2 DEF Player
    <2> HIDE DEF r
    <2>4. /\ Seated(qs) = (Seated(ps) \ {ps[i]}) \cup {r}
          /\ Once(qs) /\ Active(qs) = Active(ps)
      BY <1>1, <1>3, <1>5, <2>3, ListExcept
    <2> HIDE DEF qs
    <2>5. \A q \in Seated(ps) : q.id = u => q = ps[i]
      BY <1>1, <2>2, ListFacts
    <2>6. ListSound(qs, status[t])
      BY <1>2, <1>5, <2>4 DEF ListSound
    <2>7. ActiveIds(qs) = ActiveIds(ps)
      BY <2>2, <2>3, <2>4 DEF ActiveIds
    <2>8. \A q \in Seated(qs) : \/ q \in Seated(ps) /\ q.id # u
                                \/ q.id = u /\ q.bot
      BY <2>2, <2>3, <2>4, <2>5
    <2>9. \A q \in Seated(ps) : q.id # u => q \in Seated(qs)
      BY <2>2, <2>4
    <2> QED BY <1>5, <2>1, <2>6, <2>7, <2>8, <2>9 DEF ps, qs
  <1>6. CASE Sits(ps, u) /\ ~(status[t] = "playing" /\ ~ps[i].bot /\ ~ps[i].spec)
    <2> DEFINE kept == {j \in DOMAIN ps : ps[j].id # u}
               qs == Keeping(ps, kept)
    <2>1. PlayersAfter(t, u) = qs /\ kept \in SUBSET DOMAIN ps
      BY <1>6 DEF PlayersAfter, Without
    <2>2. kept = {j \in DOMAIN ps : ps[j].id # u}
      OBVIOUS
    <2> HIDE DEF kept, ps, i
    <2>3. /\ Seated(qs) = {ps[j] : j \in kept}
          /\ Once(qs)
          /\ Active(ps) \subseteq kept => Cardinality(Active(qs)) = Cardinality(Active(ps))
      BY <1>1, <2>1, ListKeeping
    <2> HIDE DEF qs
    <2>4. /\ \A q \in Seated(qs) : q \in Seated(ps) /\ q.id # u
          /\ \A q \in Seated(ps) : q.id # u => q \in Seated(qs)
      BY <2>2, <2>3 DEF Seated
    <2>5. ASSUME status[t] = "playing"
          PROVE  Active(ps) \subseteq kept /\ ActiveIds(qs) = ActiveIds(ps)
      <3>1. ps[i] \in Seated(ps) /\ ps[i].id = u /\ i \in DOMAIN ps
        BY <1>3, <1>6 DEF Seated
      <3>2. ps[i].spec
        BY <1>2, <1>6, <2>5, <3>1
      <3>3. \A j \in DOMAIN ps : ps[j].id = u => j = i
        BY <1>1, <3>1 DEF Once
      <3>4. Active(ps) \subseteq kept
        BY <2>2, <3>2, <3>3 DEF Active
      <3>5. \A q \in Seated(ps) : q.id = u => q.spec
        BY <3>2, <3>3 DEF Seated
      <3>6. ActiveIds(qs) = ActiveIds(ps)
        BY <2>4, <3>5 DEF ActiveIds
      <3> QED BY <3>4, <3>6
    <2>6. ListSound(qs, status[t])
      BY <1>2, <2>3, <2>4, <2>5 DEF ListSound
    <2> QED BY <2>1, <2>4, <2>5, <2>6 DEF ps, qs
  <1> QED BY <1>4, <1>5, <1>6

-----------------------------------------------------------------------------
(* Tables an action does not touch, and screens it does not redraw.        *)

LEMMA OtherSound ==
    ASSUME NEW s \in Tables, TableSound(s),
           tstate'[s] = "open" => tstate[s] = "open",
           players'[s] = players[s], members'[s] = members[s],
           gusers'[s] = gusers[s], status'[s] = status[s],
           players[s] \in Seq(Player), members[s] \subseteq Users,
           \A v \in Users : \/ presence'[v] = presence[v] \/ v \notin members[s]
                            \/ presence'[v] = "arriving"
                            \/ presence'[v] = "online" /\ ~Sits(players[s], v)
    PROVE  TableSound(s)'
  <1> SUFFICES ASSUME tstate'[s] = "open"
               PROVE  /\ ListSound(players[s], status[s])
                      /\ BooksAgree(players[s], members[s], gusers[s])'
    BY DEF TableSound
  <1> DEFINE ps == players[s]
             ms == members[s]
             gu == gusers[s]
  <1>1. ListSound(ps, status[s]) /\ BooksAgree(ps, ms, gu) /\ ms \subseteq Users
    BY DEF TableSound
  <1>2. players'[s] = ps /\ members'[s] = ms /\ gusers'[s] = gu
    OBVIOUS
  <1>3. \A v \in Users : \/ presence'[v] = presence[v] \/ v \notin ms
                         \/ presence'[v] = "arriving"
                         \/ presence'[v] = "online" /\ \A r \in Seated(ps) : r.id # v
    BY ListFacts
  <1> HIDE DEF ps, ms, gu
  <1>4. ASSUME NEW v \in Users, gu[v] = "user" PROVE v \in Humans(ps) /\ InServer(v)'
    BY <1>1, <1>3, <1>4 DEF BooksAgree, InServer
  <1>5. ASSUME NEW r \in Seated(ps), r.id \in ms, presence'[r.id] = "online" PROVE ~r.bot
    BY <1>1, <1>3, <1>5 DEF BooksAgree
  <1>6. /\ Humans(ps) \subseteq ms
        /\ \A r \in Seated(ps) : r.bot <=> gu[r.id] = "bot"
    BY <1>1 DEF BooksAgree
  <1>7. /\ Humans(ps) \subseteq ms
        /\ \A r \in Seated(ps) : r.bot <=> gu[r.id] = "bot"
        /\ \A v \in Users : gu[v] = "user" => v \in Humans(ps) /\ InServer(v)'
        /\ \A r \in Seated(ps) : r.id \in ms /\ presence'[r.id] = "online" => ~r.bot
    BY <1>4, <1>5, <1>6
  <1> QED BY <1>1, <1>2, <1>7 DEF BooksAgree, ps

LEMMA OtherRow ==
    ASSUME NEW s \in Tables, RowSound(s), row'[s] = row[s],
           \/ row[s] # None => row[s].status # "playing"
           \/ status'[s] = "finished" /\ status[s] = "playing"
           \/ /\ status'[s] = status[s]
              /\ status[s] = "playing" => ActiveIds(players'[s]) \subseteq ActiveIds(players[s])
    PROVE  RowSound(s)'
  BY DEF RowSound

LEMMA ScreenKept ==
    ASSUME NEW v \in Users, ScreenSound(v),
           presence'[v] = presence[v], screen'[v] = screen[v],
           screen[v] = "menu" /\ InServer(v) => At(v)' \subseteq At(v),
           \A s \in At(v) : gusers[s][v] = "user" => s \in At(v)' /\ gusers'[s][v] = "user"
    PROVE  ScreenSound(v)'
  BY DEF ScreenSound, InServer

\* A table is destroyed, and its players get the menu.
LEMMA DestroySound ==
    ASSUME TypeInv, TableInv, AllSound, NEW t \in Tables, tstate[t] = "open", Destroy(t),
           \A v \in Users :
              \/ ScreenSound(v)' /\ At(v) \subseteq {t}
              \/ /\ presence'[v] = presence[v]
                 /\ screen'[v] = IF v \in Humans(players[t]) /\ InServer(v)
                                 THEN "menu" ELSE screen[v],
           SavedSound'
    PROVE  AllSound' /\ ActiveKept
  <1>1. /\ tstate'[t] = "gone" /\ row'[t] = None
        /\ \A s \in Tables \ {t} :
              /\ tstate'[s] = tstate[s] /\ members'[s] = members[s] /\ players'[s] = players[s]
              /\ gusers'[s] = gusers[s] /\ status'[s] = status[s] /\ row'[s] = row[s]
    BY DEF Destroy, TypeInv, TypeOK
  <1>2. \A s \in Tables : TableSound(s) /\ RowSound(s)
    BY DEF AllSound
  <1>3. \A s \in Tables : players[s] \in Seq(Player) /\ members[s] \subseteq Users
    BY DEF TypeInv, TypeOK
  <1>4. ASSUME NEW s \in Tables PROVE TableSound(s)'
    <2>1. CASE s = t
      BY <1>1, <2>1 DEF TableSound
    <2>2. CASE s # t
      <3>1. CASE tstate[s] = "open"
        <4>1. \A v \in Users : presence'[v] = presence[v] \/ v \notin members[s]
          BY <2>2, <3>1 DEF At
        <4> QED BY <1>1, <1>2, <1>3, <2>2, <4>1, OtherSound
      <3>2. CASE tstate[s] # "open"
        BY <1>1, <2>2, <3>2 DEF TableSound
      <3> QED BY <3>1, <3>2
    <2> QED BY <2>1, <2>2
  <1>5. ASSUME NEW s \in Tables PROVE RowSound(s)'
    BY <1>1, <1>2, OtherRow DEF RowSound
  <1>6. ASSUME NEW v \in Users, presence'[v] = presence[v],
               screen'[v] = IF v \in Humans(players[t]) /\ InServer(v) THEN "menu" ELSE screen[v]
        PROVE  ScreenSound(v)'
    <2>1. At(v)' = At(v) \ {t}
      BY <1>1 DEF At
    <2>2. CASE v \in Humans(players[t]) /\ InServer(v)
      <3>1. t \in At(v)
        BY <1>2, <2>2 DEF TableSound, BooksAgree, At
      <3>2. At(v) = {t}
        BY <3>1 DEF At, TableInv, MemberInv
      <3> QED BY <1>6, <2>1, <2>2, <3>2 DEF ScreenSound, InServer
    <2>3. CASE ~(v \in Humans(players[t]) /\ InServer(v))
      <3>1. gusers[t][v] # "user"
        BY <1>2, <2>3 DEF TableSound, BooksAgree
      <3>2. \A s \in At(v) : gusers[s][v] = "user" => s \in At(v)' /\ gusers'[s][v] = "user"
        BY <1>1, <2>1, <3>1 DEF At
      <3>3. ScreenSound(v)
        BY DEF AllSound
      <3> QED BY <1>6, <2>1, <2>3, <3>2, <3>3, ScreenKept
    <2> QED BY <2>2, <2>3
  <1>7. \A v \in Users : ScreenSound(v)'
    BY <1>6
  <1>8. ActiveKept
    BY <1>1 DEF ActiveKept
  <1> QED BY <1>4, <1>5, <1>7, <1>8 DEF AllSound

\* One table changes and none is destroyed: what is to be shown of it.
LEMMA OneTableSound ==
    ASSUME TypeInv, AllSound, NEW t \in Tables,
           \A s \in Tables \ {t} :
              /\ tstate'[s] = tstate[s] /\ members'[s] = members[s] /\ players'[s] = players[s]
              /\ gusers'[s] = gusers[s] /\ status'[s] = status[s]
              /\ tstate[s] = "open" =>
                    \A v \in Users : presence'[v] = presence[v] \/ v \notin members[s],
           row' = row, TableSound(t)', RowSound(t)', SavedSound',
           \A v \in Users : ScreenSound(v)',
           /\ tstate[t] = "open" /\ status[t] = "playing"
           /\ tstate'[t] = "open" /\ status'[t] = "playing"
           => ActiveIds(players[t]) \subseteq ActiveIds(players'[t])
    PROVE  AllSound' /\ ActiveKept
  <1>1. ASSUME NEW s \in Tables PROVE TableSound(s)'
    <2>1. players[s] \in Seq(Player) /\ members[s] \subseteq Users
      BY DEF TypeInv, TypeOK
    <2>2. CASE s # t /\ tstate[s] = "open"
      BY <2>1, <2>2, OtherSound DEF AllSound
    <2>3. CASE s # t /\ tstate[s] # "open"
      BY <2>3 DEF TableSound
    <2> QED BY <2>2, <2>3
  <1>2. ASSUME NEW s \in Tables PROVE RowSound(s)'
    BY OtherRow DEF AllSound
  <1>3. ActiveKept
    BY DEF ActiveKept
  <1> QED BY <1>1, <1>2, <1>3 DEF AllSound

\* The books after a leaver has gone, or been replaced by a bot.
LEMMA LeaverSound ==
    ASSUME TypeInv, NEW t \in Tables, NEW u \in Users, TableSound(t), tstate[t] = "open",
           u \in members[t], presence[u] = "online",
           NEW ms, Humans(players[t]) \ {u} \subseteq ms, ms \subseteq members[t],
           u \notin ms \/ presence'[u] = "offline",
           tstate'[t] = "open", status'[t] = status[t], members'[t] = ms,
           players'[t] = PlayersAfter(t, u),
           gusers'[t] = [gusers[t] EXCEPT ![u] = UserAfter(t, u)],
           \A v \in Users \ {u} : presence'[v] = presence[v]
    PROVE  /\ TableSound(t)'
           /\ status[t] = "playing" => ActiveIds(players'[t]) = ActiveIds(players[t])
  <1> DEFINE ps == players[t]
             qs == PlayersAfter(t, u)
             gu == gusers[t]
             hu == gusers'[t]
  <1>1. ps \in Seq(Player) /\ qs \in Seq(Player) /\ u \in Ids /\ DOMAIN gu = Ids
        /\ Humans(ps) \subseteq Users
    BY AfterTyped DEF TypeInv, TypeOK, PersonInv, PeopleIn, Ids
  <1>2. ListSound(ps, status[t]) /\ BooksAgree(ps, members[t], gu)
    BY DEF TableSound
  <1>3. \A r \in Seated(ps) : r.id = u => ~r.bot
    BY <1>2 DEF BooksAgree
  <1>4. /\ ListSound(qs, status[t])
        /\ \A r \in Seated(qs) : \/ r \in Seated(ps) /\ r.id # u
                                 \/ r.id = u /\ r.bot /\ Sits(ps, u)
        /\ \A r \in Seated(ps) : r.id # u => r \in Seated(qs)
        /\ status[t] = "playing" => ActiveIds(qs) = ActiveIds(ps)
    BY <1>2, <1>3, LeaverList
  <1>5. /\ \A i \in Ids \ {u} : hu[i] = gu[i]
        /\ hu[u] = IF ~Sits(ps, u) THEN gu[u] ELSE IF Sits(qs, u) THEN "bot" ELSE "none"
    BY <1>1 DEF UserAfter
  <1>6. /\ players'[t] = qs /\ members'[t] = ms /\ members[t] \subseteq Users
        /\ Humans(ps) \ {u} \subseteq ms
    BY DEF TypeInv, TypeOK
  <1> HIDE DEF ps, qs, gu, hu
  <1>7. Humans(qs) \subseteq Humans(ps) \ {u} /\ Humans(ps) \ {u} \subseteq Humans(qs)
    BY <1>1, <1>4, ListFacts
  <1>8. ASSUME NEW r \in Seated(qs) PROVE r.bot <=> hu[r.id] = "bot"
    <2>1. r \in Player
      BY <1>1, ListFacts
    <2>0. r.id \in Ids
      BY <2>1 DEF Player
    <2>2. CASE r \in Seated(ps) /\ r.id # u
      BY <1>2, <1>5, <2>0, <2>2 DEF BooksAgree
    <2>3. CASE r.id = u /\ r.bot /\ Sits(ps, u)
      <3>1. Sits(qs, u)
        BY <1>1, <2>3, ListFacts
      <3> QED BY <1>5, <2>3, <3>1
    <2> QED BY <1>4, <2>2, <2>3
  <1>9. ASSUME NEW v \in Users, hu[v] = "user" PROVE v \in Humans(qs) /\ InServer(v)'
    <2>1. v \in Ids
      BY DEF Ids
    <2>2. v # u
      <3>1. ASSUME ~Sits(ps, u) PROVE gu[u] # "user"
        BY <1>1, <1>2, <3>1, ListFacts DEF BooksAgree
      <3> QED BY <1>5, <1>9, <3>1
    <2>3. v \in Humans(ps) /\ InServer(v)
      BY <1>2, <1>5, <1>9, <2>1, <2>2 DEF BooksAgree
    <2> QED BY <1>7, <2>2, <2>3 DEF InServer
  <1>10. ASSUME NEW r \in Seated(qs), r.id \in ms, presence'[r.id] = "online" PROVE ~r.bot
    <2>1. r.id # u
      BY <1>10
    <2>2. r \in Seated(ps) /\ r.id \in members[t] /\ r.id \in Users
      BY <1>4, <1>6, <1>10, <2>1
    <2> QED BY <1>2, <1>10, <2>1, <2>2 DEF BooksAgree
  <1>11. Humans(qs) \subseteq ms
    BY <1>6, <1>7
  <1>12. BooksAgree(players[t], members[t], gusers[t])'
    BY <1>6, <1>8, <1>9, <1>10, <1>11 DEF BooksAgree, hu
  <1> QED BY <1>4, <1>6, <1>12 DEF TableSound, ps

LEMMA TableAfterSound ==
    ASSUME TypeInv, TableInv, AllSound, NEW u \in Users, NEW t \in At(u),
           presence[u] = "online", NEW ms, NEW mine,
           TableAfter(t, u, ms), ScreensAfter(t, u, ms, mine), saved' = saved,
           \/ ms = members[t] \ {u} /\ presence' = presence /\ mine = "menu"
           \/ /\ ms = {} \/ ms = members[t]
              /\ presence' = [presence EXCEPT ![u] = "offline"] /\ mine = "none"
    PROVE  AllSound' /\ ActiveKept
  <1>1. t \in Tables /\ tstate[t] = "open" /\ u \in members[t]
    BY DEF At
  <1>2. \A s \in Tables \ {t} : tstate[s] = "open" => u \notin members[s]
    BY <1>1 DEF TableInv, MemberInv
  <1>3. TableSound(t) /\ ListSound(players[t], status[t])
        /\ BooksAgree(players[t], members[t], gusers[t])
    BY <1>1 DEF AllSound, TableSound
  <1>4. SavedSound'
    BY DEF AllSound, SavedSound
  <1>5. /\ \A v \in Users \ {u} : presence'[v] = presence[v]
        /\ u \notin ms \/ presence'[u] = "offline"
    BY DEF TypeInv, TypeOK
  <1>6. At(u)' \subseteq {t} /\ (u \notin ms => At(u)' = {})
    <2>1. CASE Destroy(t)
      <3>1. tstate'[t] = "gone"
            /\ \A s \in Tables \ {t} : tstate'[s] = tstate[s] /\ members'[s] = members[s]
        BY <1>1, <2>1 DEF Destroy, TypeInv, TypeOK
      <3> QED BY <1>2, <3>1 DEF At
    <2>2. CASE tstate' = tstate /\ members' = [members EXCEPT ![t] = ms]
      <3>1. members'[t] = ms
            /\ \A s \in Tables \ {t} : tstate'[s] = tstate[s] /\ members'[s] = members[s]
        BY <1>1, <2>2 DEF TypeInv, TypeOK
      <3> QED BY <1>2, <3>1 DEF At
    <2> QED BY <2>1, <2>2 DEF TableAfter
  <1>7. ScreenSound(u)'
    <2>1. screen'[u] = mine
      BY DEF ScreensAfter
    <2> QED BY <1>6, <2>1 DEF ScreenSound, InServer, TypeInv, TypeOK
  <1>8. Humans(PlayersAfter(t, u)) = Humans(players[t]) \ {u}
    <2> DEFINE ps == players[t]
               qs == PlayersAfter(t, u)
    <2>1. ps \in Seq(Player) /\ qs \in Seq(Player)
      BY <1>1, AfterTyped DEF TypeInv, TypeOK
    <2>2. \A r \in Seated(ps) : r.id = u => ~r.bot
      BY <1>1, <1>3 DEF BooksAgree
    <2>3. /\ \A r \in Seated(qs) : \/ r \in Seated(ps) /\ r.id # u
                                   \/ r.id = u /\ r.bot /\ Sits(ps, u)
          /\ \A r \in Seated(ps) : r.id # u => r \in Seated(qs)
      BY <1>1, <1>3, <2>2, LeaverList
    <2> HIDE DEF ps, qs
    <2>4. \A v : v \in Humans(qs) <=> v \in Humans(ps) /\ v # u
      BY <2>1, <2>3, ListFacts
    <2> QED BY <2>4 DEF ps, qs
  <1>9. CASE Deserted(t, u) \/ ms = {}
    <2>1. Destroy(t)
      BY <1>9 DEF TableAfter
    <2>2. ASSUME NEW v \in Users \ {u}
          PROVE  /\ presence'[v] = presence[v]
                 /\ screen'[v] = IF v \in Humans(players[t]) /\ InServer(v)
                                 THEN "menu" ELSE screen[v]
      BY <1>5, <1>8, <1>9 DEF ScreensAfter, SentHome
    <2>3. At(u) \subseteq {t}
      BY <1>2 DEF At
    <2> QED BY <1>1, <1>4, <1>7, <2>1, <2>2, <2>3, DestroySound
  <1>10. CASE ~(Deserted(t, u) \/ ms = {})
    <2>1. /\ members' = [members EXCEPT ![t] = ms]
          /\ players' = [players EXCEPT ![t] = PlayersAfter(t, u)]
          /\ gusers' = [gusers EXCEPT ![t][u] = UserAfter(t, u)]
          /\ UNCHANGED <<tstate, status, row>>
      BY <1>10 DEF TableAfter
    <2>2. /\ members'[t] = ms
          /\ players'[t] = PlayersAfter(t, u)
          /\ gusers'[t] = [gusers[t] EXCEPT ![u] = UserAfter(t, u)]
          /\ tstate'[t] = "open" /\ status'[t] = status[t]
      BY <1>1, <2>1 DEF TypeInv, TypeOK
    <2>3. \A s \in Tables \ {t} :
              /\ tstate'[s] = tstate[s] /\ members'[s] = members[s] /\ players'[s] = players[s]
              /\ gusers'[s] = gusers[s] /\ status'[s] = status[s]
      BY <1>1, <2>1 DEF TypeInv, TypeOK
    <2>4. Humans(players[t]) \ {u} \subseteq ms /\ ms \subseteq members[t]
      BY <1>3, <1>10 DEF BooksAgree
    <2>5. /\ TableSound(t)'
          /\ status[t] = "playing" => ActiveIds(players'[t]) = ActiveIds(players[t])
      BY <1>1, <1>3, <1>5, <2>2, <2>4, LeaverSound
    <2>6. RowSound(t)'
      BY <1>1, <2>1, <2>2, <2>5, OtherRow DEF AllSound
    <2>7. ASSUME NEW v \in Users, v # u PROVE ScreenSound(v)'
      <3>1. screen'[v] = screen[v] /\ presence'[v] = presence[v]
        BY <1>5, <1>10, <2>7 DEF ScreensAfter
      <3>2. At(v)' \subseteq At(v)
        BY <1>1, <2>1, <2>2, <2>3, <2>4 DEF At
      <3>3. \A s \in At(v) : gusers[s][v] = "user" => s \in At(v)' /\ gusers'[s][v] = "user"
        <4> SUFFICES ASSUME NEW s \in At(v), gusers[s][v] = "user"
                     PROVE  s \in At(v)' /\ gusers'[s][v] = "user"
          OBVIOUS
        <4>1. CASE s # t
          BY <2>1, <2>3, <4>1 DEF At
        <4>2. CASE s = t
          <5>1. v \in Humans(players[t])
            BY <1>3, <4>2 DEF BooksAgree
          <5>2. gusers'[t][v] = gusers[t][v]
            BY <1>1, <2>2, <2>7 DEF TypeInv, TypeOK, Ids
          <5>3. v \in ms
            BY <2>4, <2>7, <5>1
          <5>4. t \in At(v)'
            BY <1>1, <2>2, <5>3 DEF At
          <5> QED BY <4>2, <5>2, <5>4
        <4> QED BY <4>1, <4>2
      <3> QED BY <3>1, <3>2, <3>3, ScreenKept DEF AllSound
    <2>8. \A s \in Tables \ {t} : tstate[s] = "open" =>
              \A v \in Users : presence'[v] = presence[v] \/ v \notin members[s]
      BY <1>2, <1>5
    <2>9. \A v \in Users : ScreenSound(v)'
      BY <1>7, <2>7
    <2> QED BY <1>1, <1>4, <2>1, <2>3, <2>5, <2>6, <2>8, <2>9, OneTableSound
  <1> QED BY <1>9, <1>10

-----------------------------------------------------------------------------
(* Logging in, sitting down and getting up.                                *)

LEMMA LoginSound ==
    ASSUME TypeInv, AllSound, NEW u \in Users, Login(u)
    PROVE  AllSound' /\ ActiveKept
  <1>1. /\ presence[u] = "offline" /\ presence'[u] = "arriving"
        /\ \A v \in Users \ {u} : presence'[v] = presence[v]
        /\ UNCHANGED <<tstate, members, players, gusers, status, host, screen, row, saved>>
    BY DEF Login, tableVars, dbVars, TypeInv, TypeOK
  <1>2. ASSUME NEW s \in Tables PROVE TableSound(s)' /\ RowSound(s)'
    <2>1. players[s] \in Seq(Player) /\ members[s] \subseteq Users
      BY DEF TypeInv, TypeOK
    <2>2. TableSound(s)'
      BY <1>1, <2>1, OtherSound DEF AllSound
    <2> QED BY <1>1, <2>2, OtherRow DEF AllSound
  <1>3. ASSUME NEW v \in Users PROVE ScreenSound(v)'
    <2>1. CASE v = u
      BY <1>1, <2>1 DEF AllSound, ScreenSound, InServer
    <2>2. CASE v # u
      BY <1>1, <2>2, ScreenKept DEF AllSound, At
    <2> QED BY <2>1, <2>2
  <1>4. SavedSound' /\ ActiveKept
    BY <1>1 DEF AllSound, SavedSound, ActiveKept
  <1> QED BY <1>2, <1>3, <1>4 DEF AllSound

\* The seat of one id changes at a table; all else there stays.
LEMMA SeatSound ==
    ASSUME TypeInv, NEW t \in Tables, TableSound(t), tstate[t] = "open",
           NEW w \in Ids, NEW qs \in Seq(Player),
           players'[t] = qs, ListSound(qs, status'[t]),
           \A r \in Player : r.id # w => (r \in Seated(qs) <=> r \in Seated(players[t])),
           \A i \in Ids \ {w} : gusers'[t][i] = gusers[t][i],
           members[t] \subseteq members'[t], members'[t] \subseteq members[t] \cup {w},
           \A v \in Users \ {w} : presence'[v] = presence[v],
           \A r \in Seated(qs) : r.id = w =>
               /\ r.bot <=> gusers'[t][w] = "bot"
               /\ ~r.bot => w \in members'[t]
               /\ w \in members'[t] /\ presence'[w] = "online" => ~r.bot,
           w \in Users /\ gusers'[t][w] = "user" => w \in Humans(qs) /\ InServer(w)'
    PROVE  TableSound(t)'
  <1> DEFINE ps == players[t]
             gu == gusers[t]
             hu == gusers'[t]
             ms == members[t]
             ns == members'[t]
  <1>1. ps \in Seq(Player) /\ Humans(ps) \subseteq Users /\ ms \subseteq Users
    BY DEF TypeInv, TypeOK, PersonInv, PeopleIn
  <1>2. BooksAgree(ps, ms, gu)
    BY DEF TableSound
  <1>3. /\ \A r \in Player : r.id # w => (r \in Seated(qs) <=> r \in Seated(ps))
        /\ \A i \in Ids \ {w} : hu[i] = gu[i]
        /\ ms \subseteq ns /\ ns \subseteq ms \cup {w}
        /\ \A v \in Users \ {w} : presence'[v] = presence[v]
        /\ \A r \in Seated(qs) : r.id = w =>
               /\ r.bot <=> hu[w] = "bot"
               /\ ~r.bot => w \in ns
               /\ w \in ns /\ presence'[w] = "online" => ~r.bot
        /\ w \in Users /\ hu[w] = "user" => w \in Humans(qs) /\ InServer(w)'
    OBVIOUS
  <1> HIDE DEF ps, gu, hu, ms, ns
  <1>4. \A r \in Seated(qs) : r \in Player /\ (r.id = w \/ r \in Seated(ps))
    <2>1. Seated(qs) \subseteq Player
      BY ListFacts
    <2> QED BY <1>3, <2>1
  <1>5. \A r \in Player : r.id \in Ids
    BY DEF Player
  <1>6. ASSUME NEW v, v \in Humans(qs) PROVE v \in ns
    <2>1. PICK r \in Seated(qs) : r.id = v /\ ~r.bot
      BY <1>6, ListFacts
    <2>2. CASE r \in Seated(ps)
      <3>1. v \in Humans(ps)
        BY <1>1, <2>1, <2>2, ListFacts
      <3> QED BY <1>2, <1>3, <3>1 DEF BooksAgree
    <2> QED BY <1>3, <1>4, <2>1, <2>2
  <1>7. ASSUME NEW r \in Seated(qs) PROVE r.bot <=> hu[r.id] = "bot"
    BY <1>2, <1>3, <1>4, <1>5 DEF BooksAgree
  <1>8. ASSUME NEW v \in Users, hu[v] = "user" PROVE v \in Humans(qs) /\ InServer(v)'
    <2>1. CASE v # w
      <3>1. v \in Humans(ps) /\ InServer(v)
        BY <1>2, <1>3, <1>8, <2>1 DEF BooksAgree, Ids
      <3>2. PICK r \in Seated(ps) : r.id = v /\ ~r.bot
        BY <1>1, <3>1, ListFacts
      <3>3. r \in Seated(qs)
        BY <1>1, <1>3, <2>1, <3>2, ListFacts
      <3>4. v \in Humans(qs)
        BY <3>2, <3>3, ListFacts
      <3> QED BY <1>3, <2>1, <3>1, <3>4 DEF InServer
    <2> QED BY <1>3, <1>8, <2>1
  <1>9. ASSUME NEW r \in Seated(qs), r.id \in ns, presence'[r.id] = "online" PROVE ~r.bot
    <2>1. CASE r.id # w
      <3>1. r \in Seated(ps) /\ r.id \in ms /\ r.id \in Users
        BY <1>1, <1>3, <1>4, <1>9, <2>1
      <3> QED BY <1>2, <1>3, <1>9, <2>1, <3>1 DEF BooksAgree
    <2> QED BY <1>3, <1>9, <2>1
  <1>10. BooksAgree(players[t], members[t], gusers[t])'
    BY <1>6, <1>7, <1>8, <1>9 DEF BooksAgree, ns, hu
  <1> QED BY <1>10 DEF TableSound

\* A member who comes back takes his seat from the bot that kept it.
LEMMA ArriveSound ==
    ASSUME TypeInv, TableInv, AllSound, NEW u \in Users, Arrive(u)
    PROVE  AllSound' /\ ActiveKept
  <1>1. /\ InServer(u) /\ presence'[u] = "online"
        /\ \A v \in Users \ {u} : presence'[v] = presence[v]
        /\ UNCHANGED <<tstate, members, status, host, row, saved>>
    BY DEF Arrive, dbVars, TypeInv, TypeOK
  <1>2. SavedSound'
    BY <1>1 DEF AllSound, SavedSound
  <1>3. ASSUME NEW v \in Users PROVE At(v)' = At(v)
    BY <1>1 DEF At
  <1>4. CASE /\ UNCHANGED <<players, gusers>>
             /\ \/ At(u) = {} /\ screen' = [screen EXCEPT ![u] = "menu"]
                \/ screen' = screen /\ \E t \in At(u) : ~Sits(players[t], u)
    <2>1. ASSUME NEW s \in Tables PROVE TableSound(s)' /\ RowSound(s)'
      <3>1. players[s] \in Seq(Player) /\ members[s] \subseteq Users
        BY DEF TypeInv, TypeOK
      <3>2. tstate[s] = "open" => u \notin members[s] \/ ~Sits(players[s], u)
        BY <1>4 DEF At, TableInv, MemberInv
      <3>3. CASE tstate[s] = "open"
        <4>1. \A v \in Users : \/ presence'[v] = presence[v] \/ v \notin members[s]
                               \/ presence'[v] = "online" /\ ~Sits(players[s], v)
          BY <1>1, <3>2, <3>3
        <4>2. TableSound(s)'
          BY <1>1, <1>4, <3>1, <4>1, OtherSound DEF AllSound
        <4> QED BY <1>1, <1>4, <4>2, OtherRow DEF AllSound
      <3>4. CASE tstate[s] # "open"
        <4>1. TableSound(s)'
          BY <1>1, <3>4 DEF TableSound
        <4> QED BY <1>1, <1>4, <4>1, OtherRow DEF AllSound
      <3> QED BY <3>3, <3>4
    <2>2. ASSUME NEW v \in Users PROVE ScreenSound(v)'
      <3>1. ScreenSound(v)
        BY DEF AllSound
      <3>2. CASE v # u
        <4>1. screen'[v] = screen[v] /\ presence'[v] = presence[v] /\ gusers' = gusers
          BY <1>1, <1>4, <3>2 DEF TypeInv, TypeOK
        <4> QED BY <1>3, <3>1, <4>1, ScreenKept
      <3>3. CASE v = u /\ At(u) = {}
        <4>1. screen'[u] = "menu" \/ screen'[u] = screen[u]
          BY <1>4 DEF TypeInv, TypeOK
        <4>2. screen'[u] # "game"
          BY <1>1, <3>1, <3>3, <4>1 DEF ScreenSound
        <4> QED BY <1>1, <1>3, <3>3, <4>2 DEF ScreenSound, InServer
      <3>4. CASE v = u /\ At(u) # {}
        <4>1. screen'[u] = screen[u] /\ gusers' = gusers
          BY <1>4, <3>4
        <4> QED BY <1>1, <1>3, <3>1, <3>4, <4>1 DEF ScreenSound, InServer
      <3> QED BY <3>2, <3>3, <3>4
    <2>3. ActiveKept
      BY <1>4 DEF ActiveKept
    <2> QED BY <1>2, <2>1, <2>2, <2>3 DEF AllSound
  <1>5. ASSUME NEW t \in At(u), Sits(players[t], u),
               players' = [players EXCEPT ![t][SeatOf(players[t], u)].bot = FALSE],
               gusers' = [gusers EXCEPT ![t][u] = "user"],
               screen' = [screen EXCEPT ![u] = "game"]
        PROVE  AllSound' /\ ActiveKept
    <2> DEFINE ps == players[t]
               i == SeatOf(players[t], u)
               r == [players[t][i] EXCEPT !.bot = FALSE]
               qs == [players[t] EXCEPT ![i] = r]
    <2>1. /\ t \in Tables /\ tstate[t] = "open" /\ u \in members[t]
          /\ ps \in Seq(Player) /\ u \in Ids
      BY DEF At, TypeInv, TypeOK, Ids
    <2>2. i \in DOMAIN ps /\ ps[i].id = u
      BY <1>5, <2>1, SeatFound
    <2>3. players'[t] = qs /\ \A s \in Tables \ {t} : players'[s] = players[s]
      BY <1>5, <2>1 DEF TypeInv, TypeOK
    <2>4. TableSound(t) /\ ListSound(ps, status[t]) /\ BooksAgree(ps, members[t], gusers[t])
      BY <2>1 DEF AllSound, TableSound
    <2>5. /\ gusers'[t][u] = "user" /\ \A j \in Ids \ {u} : gusers'[t][j] = gusers[t][j]
          /\ \A s \in Tables \ {t} : gusers'[s] = gusers[s]
      BY <1>5, <2>1 DEF TypeInv, TypeOK
    <2> HIDE DEF i
    <2>6. ps[i] \in Player
      BY <2>1, <2>2
    <2>7. r \in Player /\ r.id = ps[i].id /\ ~r.bot /\ r.spec = ps[i].spec
      BY <2>6 DEF Player
    <2>8. Once(ps)
      BY <2>4 DEF ListSound
    <2> HIDE DEF r, ps
    <2>9. /\ [ps EXCEPT ![i] = r] \in Seq(Player)
          /\ Seated([ps EXCEPT ![i] = r]) = (Seated(ps) \ {ps[i]}) \cup {r}
          /\ Once([ps EXCEPT ![i] = r])
          /\ Active([ps EXCEPT ![i] = r]) = Active(ps)
      BY <2>1, <2>2, <2>7, <2>8, ListExcept
    <2>10. qs = [ps EXCEPT ![i] = r]
      BY DEF ps
    <2>11. /\ qs \in Seq(Player) /\ Once(qs) /\ Active(qs) = Active(ps)
           /\ Seated(qs) = (Seated(ps) \ {ps[i]}) \cup {r}
      BY <2>9, <2>10
    <2>12. \A q \in Seated(ps) : q.id = u => q = ps[i]
      BY <2>2, <2>8 DEF Seated, Once
    <2>13. ps[i] \in Seated(ps)
      BY <2>2 DEF Seated
    <2> HIDE DEF qs
    <2>14. \A q \in Seated(qs) : q.id = u => q = r
      BY <2>11, <2>12
    <2>15. ListSound(qs, status[t])
      BY <2>4, <2>7, <2>11 DEF ListSound
    <2>16. \A q \in Player : q.id # u => (q \in Seated(qs) <=> q \in Seated(ps))
      BY <2>2, <2>7, <2>11
    <2>17. u \in Humans(qs)
      BY <2>2, <2>7, <2>11, ListFacts
    <2>18. TableSound(t)'
      <3>1. /\ players'[t] = qs /\ status'[t] = status[t] /\ members'[t] = members[t]
            /\ InServer(u)'
        BY <1>1, <2>3 DEF InServer
      <3>2. \A q \in Seated(qs) : q.id = u =>
               /\ q.bot <=> gusers'[t][u] = "bot"
               /\ ~q.bot => u \in members'[t]
               /\ u \in members'[t] /\ presence'[u] = "online" => ~q.bot
        BY <2>1, <2>5, <2>7, <2>14, <3>1
      <3> QED BY <1>1, <2>1, <2>4, <2>5, <2>11, <2>15, <2>16, <2>17, <3>1, <3>2, SeatSound DEF ps
    <2>19. ActiveIds(players'[t]) = ActiveIds(players[t])
      <3>1. ActiveIds(qs) = ActiveIds(ps)
        BY <2>2, <2>7, <2>11, <2>13 DEF ActiveIds
      <3> QED BY <2>3, <3>1 DEF ps
    <2>20. RowSound(t)'
      BY <1>1, <2>1, <2>19, OtherRow DEF AllSound
    <2>21. ASSUME NEW v \in Users PROVE ScreenSound(v)'
      <3>1. CASE v = u
        <4>1. screen'[u] = "game" /\ t \in At(u)'
          BY <1>3, <1>5 DEF TypeInv, TypeOK
        <4> QED BY <1>1, <2>5, <3>1, <4>1 DEF ScreenSound, InServer
      <3>2. CASE v # u
        <4>1. screen'[v] = screen[v] /\ presence'[v] = presence[v]
          BY <1>1, <1>5, <3>2 DEF TypeInv, TypeOK
        <4>2. \A s \in Tables : gusers'[s][v] = gusers[s][v]
          BY <2>5, <3>2 DEF Ids
        <4> QED BY <1>3, <4>1, <4>2, ScreenKept DEF AllSound, At
      <3> QED BY <3>1, <3>2
    <2>22. \A s \in Tables \ {t} : tstate[s] = "open" =>
              \A v \in Users : presence'[v] = presence[v] \/ v \notin members[s]
      BY <1>1, <2>1 DEF TableInv, MemberInv
    <2> QED BY <1>1, <1>2, <2>1, <2>3, <2>5, <2>18, <2>19, <2>20, <2>21, <2>22, OneTableSound
  <1> QED BY <1>4, <1>5 DEF Arrive

-----------------------------------------------------------------------------
LEMMA FreshStep ==
    ASSUME TypeInv, FreshInv, [Next]_vars
    PROVE  FreshInv'
  <1> DEFINE Quiet == \A t \in Tables : tstate'[t] = "unused" =>
                          tstate[t] = "unused" /\ gusers'[t] = gusers[t]
  <1>0. Quiet => FreshInv'
    BY DEF FreshInv
  <1> USE DEF tableVars, userVars, dbVars, TypeInv, TypeOK
  <1>1. ASSUME NEW t \in Tables, Destroy(t) PROVE Quiet
    BY <1>1 DEF Destroy
  <1>2. ASSUME NEW u \in Users, NEW t \in At(u), NEW ms, TableAfter(t, u, ms) PROVE Quiet
    BY <1>1, <1>2 DEF TableAfter, At
  <1>3. ASSUME NEW u \in Users, Login(u) \/ Arrive(u) \/ Disconnect(u) PROVE Quiet
    <2>1. CASE Login(u)
      BY <2>1 DEF Login
    <2>2. CASE Arrive(u)
      BY <2>2 DEF Arrive, At
    <2>3. CASE Disconnect(u)
      BY <1>2, <2>3 DEF Disconnect
    <2> QED BY <1>3, <2>1, <2>2, <2>3
  <1>4. ASSUME NEW u \in Users, NEW t \in Tables, Create(u, t) \/ Join(u, t) \/ Leave(u, t)
        PROVE  Quiet
    <2>1. CASE Create(u, t)
      BY <2>1 DEF Create
    <2>2. CASE Join(u, t)
      BY <2>2 DEF Join
    <2>3. CASE Leave(u, t)
      BY <1>2, <2>3 DEF Leave
    <2> QED BY <1>4, <2>1, <2>2, <2>3
  <1>5. ASSUME NEW u \in Users, NEW t \in Tables,
               \/ \E b \in Bots : AddBot(u, t, b)
               \/ RemoveBot(u, t) \/ ToggleSpectator(u, t) \/ Start(u, t)
        PROVE  Quiet
    BY <1>5 DEF AddBot, RemoveBot, ToggleSpectator, Start, HostAt, At
  <1>6. ASSUME NEW u \in Users, NEW t \in Tables, Save(u, t) \/ Restore(u, t) PROVE Quiet
    <2>1. CASE Save(u, t)
      BY <1>1, <2>1 DEF Save
    <2>2. CASE Restore(u, t)
      BY <2>2 DEF Restore
    <2> QED BY <1>6, <2>1, <2>2
  <1>7. ASSUME NEW t \in Tables, Finish(t) PROVE Quiet
    BY <1>1, <1>7 DEF Finish
  <1>8. CASE Persist
    BY <1>8 DEF Persist, FreshInv
  <1>9. CASE Restart
    <2>1. ASSUME NEW t \in Tables, tstate'[t] = "unused" PROVE gusers'[t] = Nobody
      BY <1>9, <2>1 DEF Restart
    <2> QED BY <2>1 DEF FreshInv
  <1>10. CASE UNCHANGED vars
    BY <1>10 DEF vars, FreshInv
  <1> HIDE DEF Quiet
  <1> QED BY <1>0, <1>3, <1>4, <1>5, <1>6, <1>7, <1>8, <1>9, <1>10 DEF Next

LEMMA CreateSound ==
    ASSUME TypeInv, TableInv, FreshInv, AllSound, NEW u \in Users, NEW t \in Tables, Create(u, t)
    PROVE  AllSound' /\ ActiveKept
  <1> DEFINE r == [id |-> u, bot |-> FALSE, spec |-> FALSE]
             qs == <<r>>
  <1>1. /\ presence[u] = "online" /\ At(u) = {} /\ tstate[t] = "unused"
        /\ tstate' = [tstate EXCEPT ![t] = "open"]
        /\ members' = [members EXCEPT ![t] = {u}]
        /\ players' = [players EXCEPT ![t] = qs]
        /\ gusers' = [gusers EXCEPT ![t][u] = "user"]
        /\ status' = [status EXCEPT ![t] = "waiting"]
        /\ screen' = [screen EXCEPT ![u] = "game"]
        /\ UNCHANGED <<presence, row, saved>>
    BY DEF Create, Browsing, dbVars
  <1>2. r \in Player /\ r.id = u /\ ~r.bot
    BY DEF Player, Ids
  <1> HIDE DEF r
  <1>3. /\ qs \in Seq(Player) /\ Seated(qs) = {r} /\ Once(qs)
    BY <1>2 DEF Seated, Once
  <1> HIDE DEF qs
  <1>4. /\ tstate'[t] = "open" /\ members'[t] = {u} /\ players'[t] = qs
        /\ status'[t] = "waiting" /\ gusers'[t][u] = "user"
        /\ \A i \in Ids \ {u} : gusers'[t][i] = "none"
        /\ \A s \in Tables \ {t} :
              /\ tstate'[s] = tstate[s] /\ members'[s] = members[s] /\ players'[s] = players[s]
              /\ gusers'[s] = gusers[s] /\ status'[s] = status[s]
    BY <1>1 DEF TypeInv, TypeOK, FreshInv, Nobody, Ids
  <1>5. Humans(qs) = {u}
    <2>1. \A v : v \in Humans(qs) <=> v = u
      BY <1>2, <1>3, ListFacts
    <2> QED BY <2>1
  <1>6. TableSound(t)'
    <2>1. ListSound(qs, "waiting")
      BY <1>2, <1>3 DEF ListSound
    <2>2. BooksAgree(players[t], members[t], gusers[t])'
      BY <1>1, <1>2, <1>3, <1>4, <1>5 DEF BooksAgree, InServer, Ids
    <2> QED BY <1>4, <2>1, <2>2 DEF TableSound
  <1>7. RowSound(t)'
    BY <1>1 DEF TableInv, RowInv, RowSound
  <1>8. ASSUME NEW v \in Users PROVE ScreenSound(v)'
    <2>1. CASE v = u
      BY <1>1, <1>4, <2>1 DEF ScreenSound, At, TypeInv, TypeOK
    <2>2. CASE v # u
      <3>1. screen'[v] = screen[v] /\ presence'[v] = presence[v]
        BY <1>1, <2>2 DEF TypeInv, TypeOK
      <3>2. At(v)' = At(v)
        BY <1>1, <1>4, <2>2 DEF At
      <3>3. \A s \in At(v) : gusers'[s] = gusers[s]
        BY <1>1, <1>4 DEF At
      <3> QED BY <3>1, <3>2, <3>3, ScreenKept DEF AllSound
    <2> QED BY <2>1, <2>2
  <1>9. SavedSound'
    BY <1>1 DEF AllSound, SavedSound
  <1>10. presence' = presence /\ row' = row /\ tstate[t] # "open"
    BY <1>1
  <1> QED BY <1>4, <1>6, <1>7, <1>8, <1>9, <1>10, OneTableSound

\* Who joins a game that keeps no seat for him.
LEMMA JoinSound ==
    ASSUME TypeInv, TableInv, AllSound, NEW u \in Users, NEW t \in Tables, Join(u, t),
           ~Sits(players[t], u)
    PROVE  AllSound' /\ ActiveKept
  <1>1. PICK full \in BOOLEAN :
           /\ players' = [players EXCEPT ![t] =
                            Append(players[t], [id |-> u, bot |-> FALSE, spec |-> full])]
           /\ status[t] = "playing" => full
    BY DEF Join
  <1> DEFINE r == [id |-> u, bot |-> FALSE, spec |-> full]
             ps == players[t]
             qs == Append(ps, r)
  <1>2. /\ presence[u] = "online" /\ At(u) = {} /\ tstate[t] = "open"
        /\ players' = [players EXCEPT ![t] = qs]
        /\ members' = [members EXCEPT ![t] = members[t] \cup {u}]
        /\ gusers' = [gusers EXCEPT ![t][u] = "user"]
        /\ screen' = [screen EXCEPT ![u] = "game"]
        /\ UNCHANGED <<tstate, status, presence, row, saved>>
    BY <1>1 DEF Join, Browsing, dbVars
  <1>3. r \in Player /\ r.id = u /\ ~r.bot /\ (status[t] = "playing" => r.spec)
    BY <1>1 DEF Player, Ids
  <1>4. ps \in Seq(Player) /\ u \in Ids /\ ListSound(ps, status[t]) /\ ~Sits(ps, u)
    BY <1>2 DEF TypeInv, TypeOK, Ids, AllSound, TableSound
  <1> HIDE DEF r, ps
  <1>5. /\ qs \in Seq(Player) /\ Seated(qs) = Seated(ps) \cup {r}
        /\ Once(ps) /\ ~Sits(ps, r.id) => Once(qs)
        /\ r.spec => Active(qs) = Active(ps)
    BY <1>3, <1>4, ListAppend
  <1> HIDE DEF qs
  <1>6. /\ tstate'[t] = "open" /\ members'[t] = members[t] \cup {u} /\ players'[t] = qs
        /\ status'[t] = status[t] /\ gusers'[t][u] = "user"
        /\ \A i \in Ids \ {u} : gusers'[t][i] = gusers[t][i]
        /\ \A s \in Tables \ {t} :
              /\ tstate'[s] = tstate[s] /\ members'[s] = members[s] /\ players'[s] = players[s]
              /\ gusers'[s] = gusers[s] /\ status'[s] = status[s]
    BY <1>2, <1>4 DEF TypeInv, TypeOK
  <1>7. \A q \in Seated(ps) : q.id # u
    BY <1>4, ListFacts
  <1>8. ListSound(qs, status[t])
    BY <1>3, <1>4, <1>5 DEF ListSound
  <1>9. ActiveIds(qs) = ActiveIds(ps) \/ status[t] # "playing"
    BY <1>3, <1>5 DEF ActiveIds
  <1>10. TableSound(t)'
    <2>1. u \in Humans(qs) /\ InServer(u)'
      BY <1>2, <1>3, <1>5, ListFacts DEF InServer
    <2>2. \A q \in Player : q.id # u => (q \in Seated(qs) <=> q \in Seated(ps))
      BY <1>3, <1>5
    <2>3. \A q \in Seated(qs) : q.id = u =>
               /\ q.bot <=> gusers'[t][u] = "bot"
               /\ ~q.bot => u \in members'[t]
               /\ u \in members'[t] /\ presence'[u] = "online" => ~q.bot
      BY <1>3, <1>5, <1>6, <1>7
    <2>4. TableSound(t) /\ presence' = presence
      BY <1>2 DEF AllSound
    <2> QED BY <1>2, <1>4, <1>5, <1>6, <1>8, <2>1, <2>2, <2>3, <2>4, SeatSound DEF ps
  <1>11. RowSound(t)'
    BY <1>2, <1>6, <1>9, OtherRow DEF AllSound, ps
  <1>12. ASSUME NEW v \in Users PROVE ScreenSound(v)'
    <2>1. CASE v = u
      BY <1>2, <1>6, <2>1 DEF ScreenSound, At, TypeInv, TypeOK
    <2>2. CASE v # u
      <3>1. screen'[v] = screen[v] /\ presence'[v] = presence[v]
        BY <1>2, <2>2 DEF TypeInv, TypeOK
      <3>2. At(v)' = At(v)
        BY <1>2, <1>6, <2>2 DEF At
      <3>3. \A s \in Tables : gusers'[s][v] = gusers[s][v]
        BY <1>6, <2>2 DEF Ids
      <3> QED BY <3>1, <3>2, <3>3, ScreenKept DEF AllSound, At
    <2> QED BY <2>1, <2>2
  <1>13. SavedSound'
    BY <1>2 DEF AllSound, SavedSound
  <1>14. presence' = presence /\ row' = row
    BY <1>2
  <1>15. status[t] = "playing" => ActiveIds(players[t]) \subseteq ActiveIds(players'[t])
    BY <1>6, <1>9 DEF ps
  <1> QED BY <1>6, <1>10, <1>11, <1>12, <1>13, <1>14, <1>15, OneTableSound

-----------------------------------------------------------------------------
(* The lobby.                                                              *)

\* The seat of one id changes in the lobby of a table; nobody comes or goes.
LEMMA LobbySound ==
    ASSUME TypeInv, AllSound, NEW t \in Tables, tstate[t] = "open", status[t] = "waiting",
           TableSound(t)',
           players' = [players EXCEPT ![t] = players'[t]],
           status' = [status EXCEPT ![t] = status'[t]],
           \A s \in Tables : \A v \in Users : gusers'[s][v] = gusers[s][v],
           \A s \in Tables \ {t} : gusers'[s] = gusers[s],
           UNCHANGED <<tstate, members, presence, screen, row, saved>>
    PROVE  AllSound' /\ ActiveKept
  <1>1. \A s \in Tables \ {t} :
              /\ tstate'[s] = tstate[s] /\ members'[s] = members[s] /\ players'[s] = players[s]
              /\ gusers'[s] = gusers[s] /\ status'[s] = status[s]
    BY DEF TypeInv, TypeOK
  <1>2. RowSound(t)'
    <2>1. row[t] # None => row[t].status # "playing"
      BY DEF AllSound, RowSound
    <2>2. RowSound(t) /\ row'[t] = row[t]
      BY DEF AllSound
    <2> QED BY <2>1, <2>2, OtherRow
  <1>3. ASSUME NEW v \in Users PROVE ScreenSound(v)'
    <2>1. At(v)' = At(v)
      BY DEF At
    <2> QED BY <2>1, ScreenKept DEF AllSound, At
  <1>4. SavedSound'
    BY DEF AllSound, SavedSound
  <1>5. presence' = presence /\ row' = row
    OBVIOUS
  <1> QED BY <1>1, <1>2, <1>3, <1>4, <1>5, OneTableSound

LEMMA AddBotSound ==
    ASSUME TypeInv, AllSound, NEW u \in Users, NEW t \in Tables, NEW b \in Bots, AddBot(u, t, b)
    PROVE  AllSound' /\ ActiveKept
  <1> DEFINE r == [id |-> b, bot |-> TRUE, spec |-> FALSE]
             ps == players[t]
             qs == Append(ps, r)
  <1>1. /\ tstate[t] = "open" /\ status[t] = "waiting" /\ ~Sits(ps, b)
        /\ players' = [players EXCEPT ![t] = qs]
        /\ gusers' = [gusers EXCEPT ![t][b] = "bot"]
        /\ UNCHANGED <<tstate, members, status, presence, screen, row, saved>>
    BY DEF AddBot, HostAt, At, userVars, dbVars
  <1>2. r \in Player /\ r.id = b /\ r.bot /\ b \in Ids /\ b \notin Users
    BY SeatAssumption DEF Player, Ids
  <1>3. ps \in Seq(Player) /\ ListSound(ps, "waiting") /\ TableSound(t)
    BY <1>1 DEF TypeInv, TypeOK, AllSound, TableSound
  <1> HIDE DEF r, ps
  <1>4. /\ qs \in Seq(Player) /\ Seated(qs) = Seated(ps) \cup {r}
        /\ Once(ps) /\ ~Sits(ps, r.id) => Once(qs)
    BY <1>2, <1>3, ListAppend
  <1> HIDE DEF qs
  <1>5. /\ players'[t] = qs /\ status'[t] = "waiting" /\ gusers'[t][b] = "bot"
        /\ \A i \in Ids \ {b} : gusers'[t][i] = gusers[t][i]
        /\ \A s \in Tables \ {t} : gusers'[s] = gusers[s]
    BY <1>1, <1>2 DEF TypeInv, TypeOK
  <1>6. ListSound(qs, "waiting")
    BY <1>1, <1>2, <1>3, <1>4 DEF ListSound
  <1>7. TableSound(t)'
    <2>1. \A q \in Player : q.id # b => (q \in Seated(qs) <=> q \in Seated(ps))
      BY <1>2, <1>4
    <2>2. \A q \in Seated(ps) : q.id # b
      BY <1>1, <1>3, ListFacts
    <2>3. members'[t] = members[t] /\ members[t] \subseteq Users /\ presence' = presence
      BY <1>1 DEF TypeInv, TypeOK
    <2>4. \A q \in Seated(qs) : q.id = b =>
               /\ q.bot <=> gusers'[t][b] = "bot"
               /\ ~q.bot => b \in members'[t]
               /\ b \in members'[t] /\ presence'[b] = "online" => ~q.bot
      BY <1>2, <1>4, <1>5, <2>2, <2>3
    <2> QED BY <1>1, <1>2, <1>3, <1>4, <1>5, <1>6, <2>1, <2>3, <2>4, SeatSound DEF ps
  <1>8. \A s \in Tables : \A v \in Users : gusers'[s][v] = gusers[s][v]
    BY <1>2, <1>5 DEF Ids
  <1>9. players' = [players EXCEPT ![t] = players'[t]] /\ status' = [status EXCEPT ![t] = status'[t]]
    BY <1>1, <1>5 DEF TypeInv, TypeOK
  <1> QED BY <1>1, <1>5, <1>7, <1>8, <1>9, LobbySound

LEMMA RemoveBotSound ==
    ASSUME TypeInv, AllSound, NEW u \in Users, NEW t \in Tables, RemoveBot(u, t)
    PROVE  AllSound' /\ ActiveKept
  <1> DEFINE ps == players[t]
             bots == {i \in DOMAIN ps : ps[i].bot}
             last == CHOOSE i \in bots : \A j \in bots : j <= i
             kept == DOMAIN ps \ {last}
             b == ps[last].id
             qs == Keeping(ps, kept)
  <1>1. /\ tstate[t] = "open" /\ status[t] = "waiting" /\ bots # {}
        /\ players' = [players EXCEPT ![t] = qs]
        /\ gusers' = [gusers EXCEPT ![t][b] = "none"]
        /\ UNCHANGED <<tstate, members, status, presence, screen, row, saved>>
    BY DEF RemoveBot, HostAt, At, userVars, dbVars
  <1>2. ps \in Seq(Player) /\ ListSound(ps, "waiting") /\ TableSound(t)
    BY <1>1 DEF TypeInv, TypeOK, AllSound, TableSound
  <1>3. last \in DOMAIN ps /\ ps[last].bot
    <2>1. \E m \in bots : \A n \in bots : n <= m
      <3>1. bots \in SUBSET (1..Len(ps)) /\ Len(ps) \in Nat
        BY <1>2
      <3> HIDE DEF bots
      <3> DEFINE top == Len(ps)
                 after == {top - i : i \in bots}
      <3>2. after \in SUBSET Nat /\ after # {}
        <4>1. \A i \in bots : top - i \in Nat
          BY <3>1
        <4> HIDE DEF top
        <4> QED BY <1>1, <4>1
      <3> HIDE DEF after
      <3>3. PICK k \in after : \A l \in after : k <= l
        BY <3>2, Least
      <3> USE DEF after
      <3>4. PICK m \in bots : k = Len(ps) - m
        BY <3>3
      <3>5. \A n \in bots : k <= Len(ps) - n
        BY <3>3
      <3> QED BY <3>1, <3>4, <3>5
    <2>2. last \in bots
      BY <2>1
    <2> QED BY <2>2
  <1> HIDE DEF last, ps
  <1>4. b \in Bots /\ b \in Ids /\ b \notin Users
    <2>1. ps[last] \in Seated(ps)
      BY <1>3 DEF Seated
    <2> QED BY <1>2, <1>3, <2>1, SeatAssumption DEF ListSound, Ids
  <1>5. kept \in SUBSET DOMAIN ps
    OBVIOUS
  <1>6. /\ qs \in Seq(Player) /\ Seated(qs) = {ps[i] : i \in kept} /\ (Once(ps) => Once(qs))
    BY <1>2, <1>5, ListKeeping
  <1> HIDE DEF qs
  <1>7. Once(ps)
    BY <1>2 DEF ListSound
  <1>8. \A q \in Seated(qs) : q \in Seated(ps) /\ q.id # b
    BY <1>3, <1>6, <1>7 DEF Seated, Once
  <1>9. \A q \in Seated(ps) : q.id # b => q \in Seated(qs)
    BY <1>6 DEF Seated
  <1> HIDE DEF b, kept
  <1>10. /\ players'[t] = qs /\ status'[t] = "waiting" /\ gusers'[t][b] = "none"
         /\ \A i \in Ids \ {b} : gusers'[t][i] = gusers[t][i]
         /\ \A s \in Tables \ {t} : gusers'[s] = gusers[s]
    BY <1>1, <1>4 DEF TypeInv, TypeOK
  <1>11. ListSound(qs, "waiting")
    BY <1>2, <1>6, <1>7, <1>8 DEF ListSound
  <1>12. TableSound(t)'
    <2>1. \A q \in Player : q.id # b => (q \in Seated(qs) <=> q \in Seated(ps))
      BY <1>8, <1>9
    <2>2. members'[t] = members[t] /\ presence' = presence
      BY <1>1
    <2> QED BY <1>1, <1>2, <1>4, <1>6, <1>8, <1>10, <1>11, <2>1, <2>2, SeatSound DEF ps
  <1>13. \A s \in Tables : \A v \in Users : gusers'[s][v] = gusers[s][v]
    BY <1>4, <1>10 DEF Ids
  <1>14. players' = [players EXCEPT ![t] = players'[t]]
         /\ status' = [status EXCEPT ![t] = status'[t]]
    BY <1>1, <1>10 DEF TypeInv, TypeOK
  <1> QED BY <1>1, <1>10, <1>12, <1>13, <1>14, LobbySound

LEMMA ToggleSound ==
    ASSUME TypeInv, AllSound, NEW u \in Users, NEW t \in Tables, ToggleSpectator(u, t)
    PROVE  AllSound' /\ ActiveKept
  <1> DEFINE ps == players[t]
             i == SeatOf(ps, u)
             r == [ps[i] EXCEPT !.spec = ~ps[i].spec]
             qs == [ps EXCEPT ![i] = r]
  <1>1. /\ tstate[t] = "open" /\ status[t] = "waiting" /\ Sits(ps, u) /\ u \in members[t]
        /\ players' = [players EXCEPT ![t] = qs]
        /\ UNCHANGED <<tstate, members, gusers, status, presence, screen, row, saved>>
    BY DEF ToggleSpectator, At, userVars, dbVars
  <1>2. /\ ps \in Seq(Player) /\ ListSound(ps, "waiting") /\ TableSound(t) /\ u \in Ids
        /\ BooksAgree(ps, members[t], gusers[t])
    BY <1>1 DEF TypeInv, TypeOK, AllSound, TableSound, Ids
  <1>3. i \in DOMAIN ps /\ ps[i].id = u
    BY <1>1, <1>2, SeatFound
  <1> HIDE DEF i, ps
  <1>4. ps[i] \in Player
    BY <1>2, <1>3
  <1>5. r \in Player /\ r.id = ps[i].id /\ r.bot = ps[i].bot
    BY <1>4 DEF Player
  <1>6. Once(ps)
    BY <1>2 DEF ListSound
  <1> HIDE DEF r
  <1>7. qs \in Seq(Player) /\ Once(qs) /\ Seated(qs) = (Seated(ps) \ {ps[i]}) \cup {r}
    BY <1>2, <1>3, <1>5, <1>6, ListExcept
  <1> HIDE DEF qs
  <1>8. ps[i] \in Seated(ps) /\ \A q \in Seated(ps) : q.id = u => q = ps[i]
    BY <1>3, <1>6 DEF Seated, Once
  <1>9. players'[t] = qs /\ status'[t] = "waiting"
    BY <1>1 DEF TypeInv, TypeOK
  <1>10. ListSound(qs, "waiting")
    BY <1>2, <1>5, <1>7, <1>8 DEF ListSound
  <1>11. TableSound(t)'
    <2>1. \A q \in Player : q.id # u => (q \in Seated(qs) <=> q \in Seated(ps))
      BY <1>3, <1>5, <1>7
    <2>2. members'[t] = members[t] /\ presence' = presence /\ gusers' = gusers
      BY <1>1
    <2>3. /\ r.bot <=> gusers[t][u] = "bot"
          /\ presence[u] = "online" => ~r.bot
      BY <1>1, <1>2, <1>3, <1>5, <1>8 DEF BooksAgree
    <2>4. \A q \in Seated(qs) : q.id = u =>
               /\ q.bot <=> gusers'[t][u] = "bot"
               /\ ~q.bot => u \in members'[t]
               /\ u \in members'[t] /\ presence'[u] = "online" => ~q.bot
      BY <1>1, <1>7, <1>8, <2>2, <2>3
    <2>5. gusers[t][u] = "user" => u \in Humans(qs) /\ InServer(u)'
      <3>1. gusers[t][u] = "user" => ~r.bot /\ InServer(u)
        BY <1>2, <2>3 DEF BooksAgree
      <3>2. ~r.bot => u \in Humans(qs)
        BY <1>3, <1>5, <1>7, ListFacts
      <3> QED BY <2>2, <3>1, <3>2 DEF InServer
    <2> QED BY <1>1, <1>2, <1>7, <1>9, <1>10, <2>1, <2>2, <2>4, <2>5, SeatSound DEF ps
  <1>12. players' = [players EXCEPT ![t] = players'[t]]
         /\ status' = [status EXCEPT ![t] = status'[t]]
    BY <1>1, <1>9 DEF TypeInv, TypeOK
  <1> QED BY <1>1, <1>11, <1>12, LobbySound

LEMMA StartSound ==
    ASSUME TypeInv, AllSound, NEW u \in Users, NEW t \in Tables, Start(u, t)
    PROVE  AllSound' /\ ActiveKept
  <1>1. /\ tstate[t] = "open" /\ status[t] = "waiting"
        /\ Cardinality(Active(players[t])) \in MinPlayers..MaxPlayers
        /\ status' = [status EXCEPT ![t] = "playing"]
        /\ UNCHANGED <<tstate, members, players, gusers, presence, screen, row, saved>>
    BY DEF Start, HostAt, At, userVars, dbVars
  <1>2. status'[t] = "playing"
    BY <1>1 DEF TypeInv, TypeOK
  <1>3. ListSound(players[t], "playing") /\ BooksAgree(players[t], members[t], gusers[t])
    BY <1>1 DEF AllSound, TableSound, ListSound
  <1>4. BooksAgree(players[t], members[t], gusers[t])'
    BY <1>1, <1>3 DEF BooksAgree, InServer
  <1>5. TableSound(t)'
    BY <1>1, <1>2, <1>3, <1>4 DEF TableSound
  <1>6. players' = [players EXCEPT ![t] = players'[t]]
         /\ status' = [status EXCEPT ![t] = status'[t]]
    BY <1>1, <1>2 DEF TypeInv, TypeOK
  <1> QED BY <1>1, <1>5, <1>6, LobbySound

-----------------------------------------------------------------------------
(* The end of a game, and the database.                                    *)

LEMMA FinishSound ==
    ASSUME TypeInv, TableInv, AllSound, NEW t \in Tables, Finish(t)
    PROVE  AllSound' /\ ActiveKept
  <1>1. /\ tstate[t] = "open" /\ status[t] = "playing"
        /\ UNCHANGED <<presence, screen, joins, doubled, saved>>
    BY DEF Finish, userVars
  <1>2. SavedSound'
    BY <1>1 DEF AllSound, SavedSound
  <1>3. CASE Humans(players[t]) = {}
    <2>1. Destroy(t)
      BY <1>3 DEF Finish
    <2> QED BY <1>1, <1>2, <1>3, <2>1, DestroySound
  <1>4. CASE Humans(players[t]) # {}
    <2>1. /\ status' = [status EXCEPT ![t] = "finished"]
          /\ UNCHANGED <<tstate, members, players, gusers, host, row>>
      BY <1>4 DEF Finish
    <2>2. status'[t] = "finished" /\ \A s \in Tables \ {t} : status'[s] = status[s]
      BY <2>1 DEF TypeInv, TypeOK
    <2>3. ListSound(players[t], "finished") /\ BooksAgree(players[t], members[t], gusers[t])
      BY <1>1 DEF AllSound, TableSound, ListSound
    <2>4. BooksAgree(players[t], members[t], gusers[t])'
      BY <1>1, <2>1, <2>3 DEF BooksAgree, InServer
    <2>5. TableSound(t)'
      BY <2>1, <2>2, <2>3, <2>4 DEF TableSound
    <2>6. RowSound(t)'
      BY <1>1, <2>1, <2>2, OtherRow DEF AllSound
    <2>7. ASSUME NEW v \in Users PROVE ScreenSound(v)'
      BY <1>1, <2>1, ScreenKept DEF AllSound, At
    <2> QED BY <1>1, <1>2, <2>1, <2>2, <2>5, <2>6, <2>7, OneTableSound
  <1> QED BY <1>3, <1>4

\* The snapshot: every row is as sound as its table, and as new.
LEMMA PersistSound ==
    ASSUME TypeInv, AllSound, Persist
    PROVE  AllSound' /\ ActiveKept
  <1>1. /\ row' = [t \in Tables |-> IF tstate[t] = "open" THEN Picture(t) ELSE row[t]]
        /\ UNCHANGED <<tstate, members, players, gusers, status, host, presence, screen,
                       joins, doubled, saved>>
    BY DEF Persist, tableVars, userVars
  <1>2. ASSUME NEW s \in Tables PROVE TableSound(s)'
    <2>1. players[s] \in Seq(Player) /\ members[s] \subseteq Users
      BY DEF TypeInv, TypeOK
    <2> QED BY <1>1, <2>1, OtherSound DEF AllSound
  <1>3. ASSUME NEW s \in Tables PROVE RowSound(s)'
    <2>1. CASE tstate[s] = "open"
      <3>1. /\ row'[s].players = players[s] /\ row'[s].status = status[s]
            /\ row'[s].members = members[s]
        BY <1>1, <2>1 DEF Picture
      <3>2. ListSound(players[s], status[s]) /\ Humans(players[s]) \subseteq members[s]
        BY <2>1 DEF AllSound, TableSound, BooksAgree
      <3> QED BY <1>1, <3>1, <3>2 DEF RowSound, PictureSound
    <2>2. CASE tstate[s] # "open"
      <3>1. row'[s] = row[s]
        BY <1>1, <2>2
      <3> QED BY <1>1, <3>1, OtherRow DEF AllSound
    <2> QED BY <2>1, <2>2
  <1>4. ASSUME NEW v \in Users PROVE ScreenSound(v)'
    BY <1>1, ScreenKept DEF AllSound, At
  <1>5. SavedSound' /\ ActiveKept
    BY <1>1 DEF AllSound, SavedSound, ActiveKept
  <1> QED BY <1>2, <1>3, <1>4, <1>5 DEF AllSound

\* A loaded game has the seats of its row; its bots play, its people are away.
LEMMA RestartSound ==
    ASSUME TypeInv, AllSound, Restart
    PROVE  AllSound' /\ ActiveKept
  <1>1. /\ UNCHANGED <<row, saved>>
        /\ \A v \in Users : presence'[v] = "offline" /\ screen'[v] = "none"
        /\ \A s \in Tables :
              /\ row[s] # None =>
                    /\ players'[s] = row[s].players /\ status'[s] = row[s].status
                    /\ members'[s] = row[s].members /\ gusers'[s] = LoadedUsers(row[s].players)
              /\ row[s] = None => tstate'[s] # "open"
    BY DEF Restart, dbVars
  <1>2. ASSUME NEW s \in Tables PROVE TableSound(s)' /\ RowSound(s)'
    <2>1. CASE row[s] = None
      BY <1>1, <2>1 DEF TableSound, RowSound
    <2>2. CASE row[s] # None
      <3> DEFINE ps == row[s].players
                 ms == row[s].members
                 hu == LoadedUsers(ps)
      <3>1. ps \in Seq(Player) /\ ms \subseteq Users
        BY <2>2 DEF TypeInv, TypeOK, Snapshot
      <3>2. ListSound(ps, row[s].status) /\ Humans(ps) \subseteq ms
        BY <2>2 DEF AllSound, RowSound, PictureSound
      <3>3. \A i \in Ids : hu[i] = IF \E q \in Seated(ps) : q.id = i /\ q.bot
                                   THEN "bot" ELSE "none"
        BY DEF LoadedUsers, Seated
      <3>4. /\ players'[s] = ps /\ status'[s] = row[s].status /\ members'[s] = ms
            /\ gusers'[s] = hu
        BY <1>1, <2>2
      <3> HIDE DEF ps, ms, hu
      <3>5. ASSUME NEW r \in Seated(ps) PROVE r.bot <=> hu[r.id] = "bot"
        <4>1. r \in Player
          BY <3>1, ListFacts
        <4>2. r.id \in Ids
          BY <4>1 DEF Player
        <4>3. \A q \in Seated(ps) : q.id = r.id => q = r
          BY <3>1, <3>2, ListFacts DEF ListSound
        <4> QED BY <3>3, <4>2, <4>3
      <3>6. ASSUME NEW v \in Users PROVE hu[v] # "user"
        BY <3>3 DEF Ids
      <3>7. ASSUME NEW r \in Seated(ps), r.id \in ms PROVE presence'[r.id] # "online"
        BY <1>1, <3>1, <3>7
      <3>8. BooksAgree(players[s], members[s], gusers[s])'
        BY <3>2, <3>4, <3>5, <3>6, <3>7 DEF BooksAgree
      <3>9. TableSound(s)'
        BY <3>2, <3>4, <3>8 DEF TableSound
      <3>10. RowSound(s)'
        <4>1. row'[s] = row[s] /\ players'[s] = row[s].players /\ status'[s] = row[s].status
          BY <1>1, <2>2
        <4>2. PictureSound(row[s])
          BY <2>2 DEF AllSound, RowSound
        <4> QED BY <4>1, <4>2 DEF RowSound
      <3> QED BY <3>9, <3>10
    <2> QED BY <2>1, <2>2
  <1>3. ASSUME NEW v \in Users PROVE ScreenSound(v)'
    BY <1>1 DEF ScreenSound, InServer
  <1>4. SavedSound'
    BY <1>1 DEF AllSound, SavedSound
  <1>5. ActiveKept
    BY <1>1 DEF ActiveKept, AllSound, RowSound
  <1> QED BY <1>2, <1>3, <1>4, <1>5 DEF AllSound

LEMMA SaveSound ==
    ASSUME TypeInv, TableInv, AllSound, NEW u \in Users, NEW t \in Tables, Save(u, t)
    PROVE  AllSound' /\ ActiveKept
  <1>1. /\ tstate[t] = "open" /\ presence[u] = "online" /\ u \in members[t]
        /\ Sits(players[t], u) /\ host[t] = u
        /\ Destroy(t) /\ saved' = Picture(t) /\ presence' = presence
        /\ screen' = [v \in Users |-> IF v \in SentHome(players[t]) THEN "menu" ELSE screen[v]]
    BY DEF Save, HostAt, At
  <1>2. /\ ListSound(players[t], status[t]) /\ BooksAgree(players[t], members[t], gusers[t])
        /\ players[t] \in Seq(Player)
    BY <1>1 DEF AllSound, TableSound, TypeInv, TypeOK
  <1>3. u \in Humans(players[t])
    <2>1. PICK r \in Seated(players[t]) : r.id = u
      BY <1>1, <1>2, ListFacts
    <2>2. ~r.bot
      BY <1>1, <1>2, <2>1 DEF BooksAgree
    <2> QED BY <1>2, <2>1, <2>2, ListFacts
  <1>4. SavedSound'
    BY <1>1, <1>2, <1>3 DEF SavedSound, Picture, PictureSound, BooksAgree
  <1>5. \A v \in Users : /\ presence'[v] = presence[v]
                         /\ screen'[v] = IF v \in Humans(players[t]) /\ InServer(v)
                                         THEN "menu" ELSE screen[v]
    BY <1>1 DEF SentHome
  <1> QED BY <1>1, <1>4, <1>5, DestroySound

\* Everybody a saved game waits for is put into his seat.
LEMMA RestoreSound ==
    ASSUME TypeInv, TableInv, AllSound, NEW u \in Users, NEW t \in Tables, Restore(u, t)
    PROVE  AllSound' /\ ActiveKept
  <1> DEFINE qs == saved.players
             hs == Humans(qs)
             hu == gusers'[t]
  <1>1. /\ saved # None /\ saved.host = u /\ tstate[t] = "unused"
        /\ \A v \in hs : InServer(v) /\ At(v) = {}
        /\ tstate' = [tstate EXCEPT ![t] = "open"]
        /\ members' = [members EXCEPT ![t] = hs \cup {u}]
        /\ players' = [players EXCEPT ![t] = qs]
        /\ gusers' = [gusers EXCEPT ![t] = [i \in Ids |-> IF i \in hs THEN "user"
                                                   ELSE IF Sits(qs, i) THEN "bot" ELSE "none"]]
        /\ screen' = [v \in Users |-> IF v \in hs THEN "game" ELSE screen[v]]
        /\ status' = [status EXCEPT ![t] = saved.status]
        /\ saved' = None
        /\ UNCHANGED <<presence, row>>
    BY DEF Restore
  <1>2. qs \in Seq(Player) /\ hs \subseteq Users
    BY <1>1 DEF TypeInv, TypeOK, PersonInv, PeopleIn, Snapshot
  <1>3. ListSound(qs, saved.status) /\ u \in hs
    BY <1>1 DEF AllSound, SavedSound, PictureSound
  <1>4. /\ tstate'[t] = "open" /\ members'[t] = hs /\ players'[t] = qs
        /\ status'[t] = saved.status
        /\ \A i \in Ids : hu[i] = IF i \in hs THEN "user" ELSE IF Sits(qs, i) THEN "bot" ELSE "none"
        /\ \A s \in Tables \ {t} :
              /\ tstate'[s] = tstate[s] /\ members'[s] = members[s] /\ players'[s] = players[s]
              /\ gusers'[s] = gusers[s] /\ status'[s] = status[s]
    BY <1>1, <1>3 DEF TypeInv, TypeOK
  <1>5. \A v \in Users : screen'[v] = IF v \in hs THEN "game" ELSE screen[v]
    BY <1>1
  <1>6. hs = Humans(qs)
    OBVIOUS
  <1> HIDE DEF qs, hs, hu
  <1>7. ASSUME NEW r \in Seated(qs)
        PROVE  (r.bot <=> hu[r.id] = "bot") /\ (r.id \in hs => ~r.bot)
    <2>1. r \in Player
      BY <1>2, ListFacts
    <2>2. r.id \in Ids
      BY <2>1 DEF Player
    <2>3. \A q \in Seated(qs) : q.id = r.id => q = r
      BY <1>2, <1>3, ListFacts DEF ListSound
    <2>4. r.id \in hs <=> ~r.bot
      BY <1>2, <1>6, <2>3, ListFacts
    <2>5. Sits(qs, r.id)
      BY <1>2, ListFacts
    <2> QED BY <1>4, <2>2, <2>4, <2>5
  <1>8. ASSUME NEW v \in Users, hu[v] = "user" PROVE v \in hs /\ InServer(v)'
    BY <1>1, <1>4, <1>8 DEF InServer, Ids
  <1>9. TableSound(t)'
    <2>1. BooksAgree(players[t], members[t], gusers[t])'
      BY <1>4, <1>6, <1>7, <1>8 DEF BooksAgree, hu
    <2> QED BY <1>3, <1>4, <2>1 DEF TableSound
  <1>10. RowSound(t)'
    BY <1>1 DEF TableInv, RowInv, RowSound
  <1>11. ASSUME NEW v \in Users PROVE ScreenSound(v)'
    <2>1. CASE v \in hs
      <3>1. t \in At(v)' /\ hu[v] = "user" /\ presence'[v] # "offline" /\ screen'[v] = "game"
        BY <1>1, <1>4, <1>5, <2>1 DEF At, InServer, Ids
      <3> QED BY <3>1 DEF ScreenSound, hu
    <2>2. CASE v \notin hs
      <3>1. screen'[v] = screen[v] /\ presence'[v] = presence[v]
        BY <1>1, <1>5, <2>2
      <3>2. At(v)' = At(v)
        BY <1>1, <1>4, <2>2 DEF At
      <3>3. \A s \in At(v) : gusers'[s] = gusers[s]
        BY <1>1, <1>4 DEF At
      <3> QED BY <3>1, <3>2, <3>3, ScreenKept DEF AllSound
    <2> QED BY <2>1, <2>2
  <1>12. SavedSound'
    BY <1>1 DEF SavedSound
  <1>13. presence' = presence /\ row' = row /\ tstate[t] # "open"
    BY <1>1
  <1> QED BY <1>4, <1>9, <1>10, <1>11, <1>12, <1>13, OneTableSound

LEMMA GoneSound ==
    ASSUME TypeInv, TableInv, AllSound, NEW u \in Users,
           Disconnect(u) \/ \E t \in Tables : Leave(u, t)
    PROVE  AllSound' /\ ActiveKept
  <1>1. CASE \E t \in Tables : Leave(u, t)
    <2>1. PICK t \in Tables : Leave(u, t)
      BY <1>1
    <2>2. /\ presence[u] = "online" /\ t \in At(u)
          /\ TableAfter(t, u, members[t] \ {u})
          /\ ScreensAfter(t, u, members[t] \ {u}, "menu")
          /\ presence' = presence /\ saved' = saved
      BY <2>1 DEF Leave
    <2> QED BY <2>2, TableAfterSound
  <1>2. CASE Disconnect(u) /\ At(u) # {}
    <2>1. /\ presence[u] = "online" /\ presence' = [presence EXCEPT ![u] = "offline"]
          /\ saved' = saved
      BY <1>2 DEF Disconnect
    <2>2. PICK t \in At(u) : \E ms : /\ ms = {} \/ ms = members[t]
                                     /\ TableAfter(t, u, ms)
                                     /\ ScreensAfter(t, u, ms, "none")
      BY <1>2 DEF Disconnect
    <2> QED BY <2>1, <2>2, TableAfterSound
  <1>3. CASE Disconnect(u) /\ At(u) = {}
    <2>1. /\ presence'[u] = "offline" /\ screen'[u] = "none"
          /\ \A v \in Users \ {u} : presence'[v] = presence[v] /\ screen'[v] = screen[v]
          /\ UNCHANGED <<tstate, members, players, gusers, status, host, row, saved>>
      BY <1>3 DEF Disconnect, tableVars, TypeInv, TypeOK
    <2>2. ASSUME NEW s \in Tables PROVE TableSound(s)' /\ RowSound(s)'
      <3>1. players[s] \in Seq(Player) /\ members[s] \subseteq Users
        BY DEF TypeInv, TypeOK
      <3>2. tstate[s] = "open" => u \notin members[s]
        BY <1>3 DEF At
      <3>3. TableSound(s)'
        <4>1. CASE tstate[s] = "open"
          BY <2>1, <3>1, <3>2, <4>1, OtherSound DEF AllSound
        <4>2. CASE tstate[s] # "open"
          BY <2>1, <4>2 DEF TableSound
        <4> QED BY <4>1, <4>2
      <3> QED BY <2>1, <3>3, OtherRow DEF AllSound
    <2>3. ASSUME NEW v \in Users PROVE ScreenSound(v)'
      <3>1. CASE v = u
        BY <2>1, <3>1 DEF ScreenSound, InServer
      <3>2. CASE v # u
        BY <2>1, <3>2, ScreenKept DEF AllSound, At
      <3> QED BY <3>1, <3>2
    <2>4. SavedSound' /\ ActiveKept
      BY <2>1 DEF AllSound, SavedSound, ActiveKept
    <2> QED BY <2>2, <2>3, <2>4 DEF AllSound
  <1> QED BY <1>1, <1>2, <1>3

LEMMA StutterSound ==
    ASSUME AllSound, UNCHANGED vars
    PROVE  AllSound' /\ ActiveKept
  <1> USE DEF vars, tableVars, userVars, dbVars
  <1>1. ASSUME NEW t \in Tables PROVE TableSound(t)' /\ RowSound(t)'
    <2>1. TableSound(t) /\ RowSound(t)
      BY DEF AllSound
    <2>2. BooksAgree(players[t], members[t], gusers[t])' <=>
          BooksAgree(players[t], members[t], gusers[t])
      BY DEF BooksAgree, InServer
    <2> QED BY <2>1, <2>2 DEF TableSound, RowSound
  <1>2. ASSUME NEW u \in Users PROVE ScreenSound(u)'
    BY DEF AllSound, ScreenSound, InServer, At
  <1>3. SavedSound' /\ ActiveKept
    BY DEF AllSound, SavedSound, ActiveKept
  <1> QED BY <1>1, <1>2, <1>3 DEF AllSound
-----------------------------------------------------------------------------
LEMMA SeatInit == Init => SeatInv
  <1> SUFFICES ASSUME Init PROVE SeatInv
    OBVIOUS
  <1>1. TypeInv /\ TableInv
    BY TypeInit, TableInit
  <1>2. FreshInv
    BY DEF Init, FreshInv
  <1>3. AllSound
    BY DEF Init, AllSound, TableSound, RowSound, SavedSound, ScreenSound, InServer
  <1> QED BY <1>1, <1>2, <1>3 DEF SeatInv

LEMMA SeatStep == SeatInv /\ [Next]_vars => SeatInv' /\ (~doubled' => ActiveKept)
  <1> SUFFICES ASSUME SeatInv, [Next]_vars PROVE SeatInv' /\ (~doubled' => ActiveKept)
    OBVIOUS
  <1>1. TypeInv /\ TableInv /\ FreshInv
    BY DEF SeatInv
  <1>2. TypeInv' /\ TableInv' /\ FreshInv'
    BY <1>1, TypeStep, TableStep, FreshStep
  <1>3. ASSUME ~doubled' PROVE AllSound' /\ ActiveKept
    <2>1. doubled' = doubled \/ \E u \in Users, t \in Tables : Join(u, t)
      <3> USE DEF userVars
      <3>1. \A u \in Users : Login(u) \/ Arrive(u) \/ Disconnect(u) => doubled' = doubled
        BY DEF Login, Arrive, Disconnect
      <3>2. \A u \in Users, t \in Tables : Create(u, t) \/ Leave(u, t) => doubled' = doubled
        BY DEF Create, Leave
      <3>3. \A u \in Users, t \in Tables, b \in Bots : AddBot(u, t, b) => doubled' = doubled
        BY DEF AddBot
      <3>4. \A u \in Users, t \in Tables :
               RemoveBot(u, t) \/ ToggleSpectator(u, t) \/ Start(u, t) => doubled' = doubled
        BY DEF RemoveBot, ToggleSpectator, Start
      <3>5. \A u \in Users, t \in Tables : Save(u, t) \/ Restore(u, t) => doubled' = doubled
        BY DEF Save, Restore
      <3>6. \A t \in Tables : Finish(t) => doubled' = doubled
        BY DEF Finish
      <3>7. Persist \/ Restart \/ UNCHANGED vars => doubled' = doubled
        BY DEF Persist, Restart, vars
      <3> QED BY <3>1, <3>2, <3>3, <3>4, <3>5, <3>6, <3>7 DEF Next
    <2>2. \A u \in Users, t \in Tables : Join(u, t) => ~doubled /\ ~Sits(players[t], u)
      BY <1>3 DEF Join
    <2>3. AllSound
      BY <1>3, <2>1, <2>2 DEF SeatInv
    <2>4. ASSUME NEW u \in Users,
                 \/ Login(u) \/ Arrive(u) \/ Disconnect(u)
                 \/ \E t \in Tables : Create(u, t) \/ Join(u, t) \/ Leave(u, t)
          PROVE  AllSound' /\ ActiveKept
      BY <1>1, <2>2, <2>3, <2>4, LoginSound, ArriveSound, GoneSound, CreateSound, JoinSound
    <2>5. ASSUME NEW u \in Users, NEW t \in Tables,
                 \/ \E b \in Bots : AddBot(u, t, b)
                 \/ RemoveBot(u, t) \/ ToggleSpectator(u, t) \/ Start(u, t)
          PROVE  AllSound' /\ ActiveKept
      BY <1>1, <2>3, <2>5, AddBotSound, RemoveBotSound, ToggleSound, StartSound
    <2>6. ASSUME NEW u \in Users, NEW t \in Tables, Save(u, t) \/ Restore(u, t)
          PROVE  AllSound' /\ ActiveKept
      BY <1>1, <2>3, <2>6, SaveSound, RestoreSound
    <2>7. ASSUME NEW t \in Tables, Finish(t) PROVE AllSound' /\ ActiveKept
      BY <1>1, <2>3, <2>7, FinishSound
    <2>8. CASE Persist \/ Restart \/ UNCHANGED vars
      BY <1>1, <2>3, <2>8, PersistSound, RestartSound, StutterSound
    <2> QED BY <2>4, <2>5, <2>6, <2>7, <2>8 DEF Next
  <1> QED BY <1>2, <1>3 DEF SeatInv

LEMMA SeatInvHolds == Spec => []SeatInv
  BY SeatInit, SeatStep, PTL DEF Spec

\* As long as nobody joins a game that keeps his seat, who sits in a game is a
\* member of its table, and a running game has a legal number of players: no
\* path forgets one of the two books, and none of the ways a seat is given up
\* (leaving, disconnecting, a crash, a saved game) takes a player from a game.
THEOREM SeatsAreSound == Spec => []SeatingSound
  <1>1. SeatInv => SeatingSound
    BY DEF SeatInv, SeatingSound, AllSound, TableSound, ListSound, BooksAgree
  <1> QED BY <1>1, SeatInvHolds, PTL

\* Under the same condition exactly one of its owner and a bot plays a seat,
\* and a game talks to nobody whose connection is gone.
THEOREM SeatsInOneHand == Spec => []SeatControl
  <1>1. ASSUME SeatInv, ~doubled, NEW t \in Tables, tstate[t] = "open",
               NEW p \in DOMAIN players[t]
        PROVE  /\ players[t][p].bot <=> gusers[t][players[t][p].id] = "bot"
               /\ gusers[t][players[t][p].id] = "user" => InServer(players[t][p].id)
    <2> DEFINE r == players[t][p]
    <2>1. BooksAgree(players[t], members[t], gusers[t])
      BY <1>1 DEF SeatInv, AllSound, TableSound
    <2>2. players[t] \in Seq(Player) /\ Humans(players[t]) \subseteq Users /\ r \in Seated(players[t])
      BY <1>1 DEF SeatInv, TypeInv, TypeOK, PersonInv, PeopleIn, Seated
    <2> HIDE DEF r
    <2>3. r.bot <=> gusers[t][r.id] = "bot"
      BY <2>1, <2>2 DEF BooksAgree
    <2>4. gusers[t][r.id] = "user" => r.id \in Users
      BY <2>2, <2>3, ListFacts
    <2>5. gusers[t][r.id] = "user" => InServer(r.id)
      BY <2>1, <2>4 DEF BooksAgree
    <2> QED BY <2>3, <2>5 DEF r
  <1>2. SeatInv => SeatControl
    BY <1>1 DEF SeatControl
  <1> QED BY <1>2, SeatInvHolds, PTL

\* Under the same condition a client that shows the menus is at no table, and
\* one that shows a game has a seat in it and gets its packets.
THEOREM ScreensAgree == Spec => []ScreenAgrees
  <1>1. ASSUME SeatInv, ~doubled, NEW u \in Users, presence[u] = "online"
        PROVE  /\ screen[u] = "menu" => At(u) = {}
               /\ screen[u] = "game" => \E t \in At(u) :
                                           Sits(players[t], u) /\ gusers[t][u] = "user"
    <2>1. ScreenSound(u) /\ InServer(u)
      BY <1>1 DEF SeatInv, AllSound, InServer
    <2>2. ASSUME NEW t \in At(u), gusers[t][u] = "user" PROVE Sits(players[t], u)
      <3>1. BooksAgree(players[t], members[t], gusers[t]) /\ players[t] \in Seq(Player)
        BY <1>1 DEF SeatInv, AllSound, TableSound, At, TypeInv, TypeOK
      <3>2. u \in Humans(players[t])
        BY <2>2, <3>1 DEF BooksAgree
      <3> QED BY <3>1, <3>2, ListFacts
    <2> QED BY <2>1, <2>2 DEF ScreenSound
  <1>2. SeatInv => ScreenAgrees
    BY <1>1 DEF ScreenAgrees
  <1> QED BY <1>2, SeatInvHolds, PTL

\* "Keep the same player ID so they can rejoin and take over": whatever happens
\* to the players of a running game, a crash and an older row included, each of
\* them has a seat in it until it is over, if nobody takes a second one.
THEOREM SeatStaysInGame == Spec => FirstSeatKept
  <1> DEFINE Kept == \A t \in Tables, i \in Ids :
          /\ ~doubled'
          /\ tstate[t] = "open" /\ status[t] = "playing"
          /\ tstate'[t] = "open" /\ status'[t] = "playing"
          /\ \E p \in Active(players[t]) : players[t][p].id = i
          => \E p \in Active(players'[t]) : players'[t][p].id = i
  <1>1. SeatInv /\ [Next]_vars => [Kept]_vars
    <2> SUFFICES ASSUME SeatInv, [Next]_vars, NEW t \in Tables, NEW i \in Ids, ~doubled',
                        tstate[t] = "open", status[t] = "playing",
                        tstate'[t] = "open", status'[t] = "playing",
                        \E p \in Active(players[t]) : players[t][p].id = i
                 PROVE  \E p \in Active(players'[t]) : players'[t][p].id = i
      OBVIOUS
    <2>1. players[t] \in Seq(Player) /\ players'[t] \in Seq(Player)
      BY SeatStep DEF SeatInv, TypeInv, TypeOK
    <2>2. ActiveIds(players[t]) \subseteq ActiveIds(players'[t])
      BY SeatStep DEF ActiveKept
    <2>3. i \in ActiveIds(players[t])
      <3>1. PICK p \in Active(players[t]) : players[t][p].id = i
        OBVIOUS
      <3>2. players[t][p] \in Seated(players[t]) /\ ~players[t][p].spec
        BY <3>1 DEF Active, Seated
      <3> QED BY <3>1, <3>2 DEF ActiveIds
    <2>4. i \in ActiveIds(players'[t])
      BY <2>2, <2>3
    <2> QED BY <2>1, <2>4, ListFacts DEF ActiveIds
  <1> QED BY <1>1, SeatInvHolds, PTL DEF Spec, FirstSeatKept
=============================================================================
