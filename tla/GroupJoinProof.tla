---------------------------- MODULE GroupJoinProof ----------------------------
(* Theorems about GroupJoin, for every set of devices, grants, invites and     *)
(* enforcing holders.                                                          *)
EXTENDS GroupJoin, TLAPS

(* A pull that can still give back its repair slot belongs to a running actor. *)
LivePulls == \A p \in pulls : p.current => Subscribed(p.by)

(* Whatever was honoured is remembered as spent. *)
ServedIsSpent == \A s \in served : s[3] \in spent[s[1]]

TypeInv == TypeOK /\ LivePulls

ReadInv == TypeInv /\ ServedIsSpent /\ OneReader /\ AuthorizationsStand

-------------------------------------------------------------------------------
(* Types *)

LEMMA NewTopicType ==
  ASSUME NEW g \in MaybeGrant
  PROVE  NewTopic(g) \in Topic
BY DEF NewTopic, Topic

LEMMA InitType == Init => TypeInv
PROOF
  <1> SUFFICES ASSUME Init PROVE TypeInv
    OBVIOUS
  <1>1. topic \in [Node -> Topic \cup {None}]
    BY NewTopicType DEF Init, MaybeGrant
  <1>2. group \in [Node -> Node \cup {None}] /\ rows \in [Node -> SUBSET Part]
    BY NodeAssumption DEF Init
  <1>3. cmds \in [Node -> Seq(Command)] /\ pulls \subseteq Pull
    BY DEF Init
  <1>4. /\ enforced \in [Node -> BOOLEAN] /\ spent \in [Node -> SUBSET Grant]
        /\ authorized \in [Node -> [Node -> MaybeGrant]]
        /\ revoked \in [Node -> SUBSET Grant] /\ served \subseteq Node \X Node \X Grant
    BY DEF Init, MaybeGrant
  <1>5. joins \in 0 .. MaxJoins /\ faults \in 0 .. MaxFaults
    BY BoundAssumption DEF Init
  <1>6. LivePulls
    BY DEF Init, LivePulls
  <1> QED BY <1>1, <1>2, <1>3, <1>4, <1>5, <1>6 DEF TypeOK, TypeInv

LEMMA FaultType ==
  ASSUME TypeOK, Fault
  PROVE  joins' \in 0 .. MaxJoins /\ faults' \in 0 .. MaxFaults
BY BoundAssumption DEF TypeOK, Fault

LEMMA JoinType ==
  ASSUME TypeOK, joins < MaxJoins, joins' = joins + 1, UNCHANGED faults
  PROVE  joins' \in 0 .. MaxJoins /\ faults' \in 0 .. MaxFaults
BY BoundAssumption DEF TypeOK

LEMMA CommandTypes ==
  ASSUME NEW g \in MaybeGrant
  PROVE  /\ <<Join(g), Seed>> \in Seq(Command)
         /\ <<Join(g)>> \in Seq(Command)
         /\ <<LeaveGroup>> \in Seq(Command)
PROOF
  <1>1. Join(g) \in Command /\ Seed \in Command /\ LeaveGroup \in Command
    BY DEF Join, Seed, LeaveGroup, Command, MaybeGrant
  <1> QED BY <1>1

LEMMA EnqueueType ==
  ASSUME TypeOK, NEW n \in Node, NEW new \in Seq(Command), Enqueue(n, new)
  PROVE  cmds' \in [Node -> Seq(Command)]
BY DEF TypeOK, Enqueue

LEMMA TakeType ==
  ASSUME TypeOK, NEW n \in Node, cmds[n] # <<>>, Take(n)
  PROVE  cmds' \in [Node -> Seq(Command)] /\ Head(cmds[n]) \in Command
PROOF
  <1>1. cmds[n] \in Seq(Command)
    BY DEF TypeOK
  <1>2. Head(cmds[n]) \in Command /\ Tail(cmds[n]) \in Seq(Command)
    BY <1>1
  <1> QED BY <1>2 DEF TypeOK, Take

LEMMA UserTypes ==
  ASSUME TypeInv, NEW n \in Node, NEW g \in Invites[n],
         join_from_invite(n, g) \/ join_group_grant(n, g)
  PROVE  TypeInv'
PROOF
  <1>1. g \in MaybeGrant
    BY GrantAssumption DEF MaybeGrant
  <1>2. cmds' \in [Node -> Seq(Command)]
    BY <1>1, CommandTypes, EnqueueType DEF join_from_invite, join_group_grant, TypeInv
  <1>3. joins' \in 0 .. MaxJoins /\ faults' \in 0 .. MaxFaults
    BY JoinType DEF join_from_invite, join_group_grant, TypeInv
  <1>4. group' \in [Node -> Node \cup {None}] /\ rows' \in [Node -> SUBSET Part]
    BY DEF join_from_invite, join_group_grant, localVars, TypeInv, TypeOK
  <1>5. UNCHANGED <<topic, pulls, authVars>>
    BY DEF join_from_invite, join_group_grant
  <1>6. LivePulls'
    BY <1>5 DEF TypeInv, LivePulls, Subscribed
  <1> QED BY <1>2, <1>3, <1>4, <1>5, <1>6 DEF TypeInv, TypeOK, authVars

LEMMA LeaveType ==
  ASSUME TypeInv, NEW n \in Node, Leave(n)
  PROVE  TypeInv'
PROOF
  <1>1. cmds' \in [Node -> Seq(Command)]
    BY CommandTypes, EnqueueType DEF Leave, TypeInv, MaybeGrant
  <1>2. joins' \in 0 .. MaxJoins /\ faults' \in 0 .. MaxFaults
    BY FaultType DEF Leave, TypeInv
  <1>3. group' \in [Node -> Node \cup {None}] /\ rows' \in [Node -> SUBSET Part]
    BY DEF Leave, TypeInv, TypeOK
  <1>4. LivePulls'
    BY DEF TypeInv, LivePulls, Subscribed, Leave
  <1> QED BY <1>1, <1>2, <1>3, <1>4 DEF TypeInv, TypeOK, authVars, Leave

LEMMA AuthorityTypes ==
  ASSUME TypeInv, NEW n \in Node,
         enforce_group(n) \/ \E g \in Grant : revoke(n, g)
  PROVE  TypeInv'
PROOF
  <1>1. CASE enforce_group(n)
    BY <1>1 DEF TypeInv, TypeOK, enforce_group, localVars, counters, LivePulls, Subscribed
  <1>2. CASE \E g \in Grant : revoke(n, g)
    <2>1. PICK g \in Grant : revoke(n, g)
      BY <1>2
    <2>2. revoked' \in [Node -> SUBSET Grant] /\ authorized' \in [Node -> [Node -> MaybeGrant]]
      <3>1. [p \in Node |-> IF authorized[n][p] = g THEN None ELSE authorized[n][p]]
              \in [Node -> MaybeGrant]
        BY DEF TypeInv, TypeOK, MaybeGrant
      <3> QED BY <2>1, <3>1 DEF revoke, RevokeGrant, TypeInv, TypeOK
    <2>3. joins' \in 0 .. MaxJoins /\ faults' \in 0 .. MaxFaults
      BY <2>1, FaultType DEF revoke, TypeInv
    <2>4. UNCHANGED <<group, rows, topic, cmds, pulls, enforced, spent, served>>
      BY <2>1 DEF revoke, localVars
    <2> QED BY <2>2, <2>3, <2>4 DEF TypeInv, TypeOK, LivePulls, Subscribed
  <1> QED BY <1>1, <1>2

LEMMA SpawnType ==
  ASSUME TypeOK, NEW n \in Node, NEW g \in MaybeGrant
  PROVE  spawn_topic_actor(n, g) \in Topic
BY NewTopicType DEF spawn_topic_actor, Subscribed, TypeOK

(* A pull in flight has kept its actor if the actor is there afterwards. *)
LEMMA SubscribedStays ==
  ASSUME LivePulls, pulls' \subseteq pulls, \A m \in Node : Subscribed(m) => topic'[m] # None,
         pulls \subseteq Pull
  PROVE  LivePulls'
BY DEF LivePulls, Subscribed, Pull

LEMMA NetworkActorTypes ==
  ASSUME TypeInv, NEW n \in Node, NetworkActor(n)
  PROVE  TypeInv'
PROOF
  <1> USE DEF TypeInv
  <1>1. CASE JoinGroup(n)
    <2> DEFINE g == Head(cmds[n]).grant
    <2>1. cmds' \in [Node -> Seq(Command)] /\ Head(cmds[n]) \in Command
      BY <1>1, TakeType DEF JoinGroup
    <2>2. g \in MaybeGrant
      BY <2>1 DEF Command
    <2>3. spawn_topic_actor(n, g) \in Topic
      BY <2>2, SpawnType
    <2>4. topic' = topic \/ topic' = [topic EXCEPT ![n] = spawn_topic_actor(n, g)]
      BY <1>1 DEF JoinGroup
    <2>5. /\ topic' \in [Node -> Topic \cup {None}]
          /\ \A m \in Node : Subscribed(m) => topic'[m] # None
      BY <2>3, <2>4, NoneAssumption DEF TypeOK, Subscribed
    <2>6. spent' \in [Node -> SUBSET Grant] /\ served' \subseteq Node \X Node \X Grant
      <3>1. CASE g # None /\ note_grant_used(n, g)
        BY <3>1, <2>2 DEF MaybeGrant, note_grant_used, TypeOK
      <3>2. CASE UNCHANGED <<spent, served>>
        BY <3>2 DEF TypeOK
      <3> QED BY <1>1, <3>1, <3>2 DEF JoinGroup
    <2>7. UNCHANGED <<group, rows, pulls, enforced, authorized, revoked, joins, faults>>
      BY <1>1 DEF JoinGroup, localVars, counters
    <2>8. LivePulls'
      BY <2>5, <2>7, SubscribedStays DEF TypeOK
    <2> QED BY <2>1, <2>5, <2>6, <2>7, <2>8 DEF TypeOK
  <1>2. CASE SeedGroupPeer(n)
    <2>1. cmds' \in [Node -> Seq(Command)]
      BY <1>2, TakeType DEF SeedGroupPeer
    <2>2. spawn_topic_actor(n, None) \in Topic
      BY SpawnType DEF MaybeGrant
    <2>3. /\ topic' \in [Node -> Topic \cup {None}]
          /\ \A m \in Node : Subscribed(m) => topic'[m] # None
      BY <1>2, <2>2, NoneAssumption DEF TypeOK, SeedGroupPeer, Subscribed
    <2>4. UNCHANGED <<group, rows, pulls, authVars, joins, faults>>
      BY <1>2 DEF SeedGroupPeer, localVars, counters
    <2>5. LivePulls'
      BY <2>3, <2>4, SubscribedStays DEF TypeOK
    <2> QED BY <2>1, <2>3, <2>4, <2>5 DEF TypeOK, authVars
  <1>3. CASE LeaveTopic(n)
    <2>1. cmds' \in [Node -> Seq(Command)]
      BY <1>3, TakeType DEF LeaveTopic
    <2>2. topic' \in [Node -> Topic \cup {None}]
      BY <1>3 DEF LeaveTopic, TypeOK
    <2>3. pulls' \subseteq Pull
      <3>1. \A p \in pulls : [p EXCEPT !.current = FALSE] \in Pull
        BY DEF TypeOK, Pull
      <3> QED BY <1>3, <3>1 DEF LeaveTopic, TypeOK
    <2>4. LivePulls'
      <3> SUFFICES ASSUME NEW q \in pulls', q.current
                   PROVE  topic'[q.by] # None
        BY DEF LivePulls, Subscribed
      <3>1. PICK p \in pulls : q = IF p.by = n THEN [p EXCEPT !.current = FALSE] ELSE p
        BY <1>3 DEF LeaveTopic
      <3>2. p \in Pull
        BY DEF TypeOK
      <3>3. p.by # n /\ q = p
        BY <3>1, <3>2 DEF Pull
      <3>4. topic[q.by] # None
        BY <3>3 DEF LivePulls, Subscribed
      <3> QED BY <1>3, <3>2, <3>3, <3>4 DEF LeaveTopic, TypeOK, Pull
    <2>5. UNCHANGED <<group, rows, authVars, joins, faults>>
      BY <1>3 DEF LeaveTopic, localVars, counters
    <2> QED BY <2>1, <2>2, <2>3, <2>4, <2>5 DEF TypeOK, authVars
  <1> QED BY <1>1, <1>2, <1>3 DEF NetworkActor

LEMMA OfferType ==
  ASSUME TypeInv, NEW n \in Node, NEW m \in Node, HearOffer(n, m)
  PROVE  TypeInv'
PROOF
  <1> USE DEF TypeInv
  <1>1. topic[n] \in Topic
    BY DEF HearOffer, Subscribed, TypeOK
  <1>2. [topic[n] EXCEPT !.offers = @ \cup {m}] \in Topic
    BY <1>1 DEF Topic
  <1>3. /\ topic' \in [Node -> Topic \cup {None}]
        /\ \A k \in Node : Subscribed(k) => topic'[k] # None
    BY <1>2, NoneAssumption DEF HearOffer, TypeOK, Subscribed
  <1>4. UNCHANGED <<group, rows, cmds, pulls, authVars, joins, faults>>
    BY DEF HearOffer, localVars, counters
  <1>5. LivePulls'
    BY <1>3, <1>4, SubscribedStays DEF TypeOK
  <1> QED BY <1>3, <1>4, <1>5 DEF TypeOK, authVars

LEMMA NewPullType ==
  ASSUME TypeOK, NEW n \in Node, NEW h \in Node, Subscribed(n),
         NEW kind \in {"join", "repair"}
  PROVE  NewPull(n, h, kind) \in Pull /\ NewPull(n, h, kind).by = n
BY DEF TypeOK, Subscribed, NewPull, Pull, Topic

(* Starting a pull marks the topic record and adds the pull. *)
LEMMA StartType ==
  ASSUME TypeInv, NEW n \in Node, NEW h \in Node, Subscribed(n),
         NEW kind \in {"join", "repair"}, NEW t \in Topic,
         topic' = [topic EXCEPT ![n] = t], pulls' = pulls \cup {NewPull(n, h, kind)},
         UNCHANGED <<group, rows, cmds, authVars, joins, faults>>
  PROVE  TypeInv'
PROOF
  <1> USE DEF TypeInv
  <1>1. /\ topic' \in [Node -> Topic \cup {None}]
        /\ topic'[n] # None
        /\ \A k \in Node : Subscribed(k) => topic'[k] # None
    BY NoneAssumption DEF TypeOK, Subscribed
  <1>2. pulls' \subseteq Pull
    BY NewPullType DEF TypeOK
  <1>3. LivePulls'
    <2> SUFFICES ASSUME NEW p \in pulls', p.current PROVE topic'[p.by] # None
      BY DEF LivePulls, Subscribed
    <2>1. CASE p \in pulls
      BY <2>1, <1>1 DEF LivePulls, TypeOK, Pull
    <2>2. CASE p = NewPull(n, h, kind)
      BY <2>2, <1>1, NewPullType
    <2> QED BY <2>1, <2>2
  <1> QED BY <1>1, <1>2, <1>3 DEF TypeOK, authVars

LEMMA PickType ==
  ASSUME TypeInv, NEW n \in Node, commit_snapshot_pick(n)
  PROVE  TypeInv'
PROOF
  <1>1. topic[n] \in Topic /\ Subscribed(n)
    BY DEF commit_snapshot_pick, Subscribed, TypeInv, TypeOK
  <1>2. PICK h \in topic[n].offers : pulls' = pulls \cup {NewPull(n, h, "join")}
    BY DEF commit_snapshot_pick
  <1>3. h \in Node
    BY <1>1 DEF Topic
  <1>4. [topic[n] EXCEPT !.need = FALSE, !.offers = {}] \in Topic
    BY <1>1 DEF Topic
  <1>5. topic' = [topic EXCEPT ![n] = [topic[n] EXCEPT !.need = FALSE, !.offers = {}]]
    BY <1>1 DEF commit_snapshot_pick, TypeInv, TypeOK
  <1>6. UNCHANGED <<group, rows, cmds, authVars, joins, faults>>
    BY DEF commit_snapshot_pick, localVars, counters
  <1> QED BY <1>1, <1>2, <1>3, <1>4, <1>5, <1>6, StartType

LEMMA RepairType ==
  ASSUME TypeInv, NEW n \in Node, NEW m \in Node, handle_anti_entropy(n, m)
  PROVE  TypeInv'
PROOF
  <1>1. topic[n] \in Topic /\ Subscribed(n)
    BY DEF handle_anti_entropy, Subscribed, TypeInv, TypeOK
  <1>2. [topic[n] EXCEPT !.repairing = TRUE] \in Topic
    BY <1>1 DEF Topic
  <1>3. /\ topic' = [topic EXCEPT ![n] = [topic[n] EXCEPT !.repairing = TRUE]]
        /\ pulls' = pulls \cup {NewPull(n, m, "repair")}
        /\ UNCHANGED <<group, rows, cmds, authVars, joins, faults>>
    BY DEF handle_anti_entropy, localVars, counters
  <1> QED BY <1>1, <1>2, <1>3, StartType

(* The end of a pull, whatever happens to the rows. *)
LEMMA EndType ==
  ASSUME TypeInv, NEW p \in pulls, EndPull(p)
  PROVE  /\ topic' \in [Node -> Topic \cup {None}]
         /\ pulls' \subseteq Pull
         /\ LivePulls'
PROOF
  <1> USE DEF TypeInv
  <1>1. p \in Pull
    BY DEF TypeOK
  <1>2. /\ topic' \in [Node -> Topic \cup {None}]
        /\ \A k \in Node : Subscribed(k) => topic'[k] # None
    <2>1. CASE p.kind = "repair" /\ p.current
      <3>1. topic[p.by] \in Topic /\ p.by \in Node
        BY <1>1, <2>1 DEF LivePulls, Subscribed, TypeOK, Pull
      <3>2. [topic[p.by] EXCEPT !.repairing = FALSE] \in Topic
        BY <3>1 DEF Topic
      <3>3. topic' = [topic EXCEPT ![p.by] = [topic[p.by] EXCEPT !.repairing = FALSE]]
        BY <2>1 DEF EndPull, Released
      <3> QED BY <3>1, <3>2, <3>3, NoneAssumption DEF TypeOK, Subscribed
    <2>2. CASE ~(p.kind = "repair" /\ p.current)
      BY <2>2 DEF EndPull, Released, TypeOK, Subscribed
    <2> QED BY <2>1, <2>2
  <1>3. pulls' \subseteq pulls
    BY DEF EndPull
  <1> QED BY <1>2, <1>3, SubscribedStays DEF TypeOK

(* A pull moved on to a later stage. *)
LEMMA MoveType ==
  ASSUME TypeInv, NEW p \in pulls, NEW q \in Pull, q.by = p.by, q.current = p.current,
         pulls' = (pulls \ {p}) \cup {q}, UNCHANGED topic
  PROVE  pulls' \subseteq Pull /\ LivePulls'
BY DEF TypeInv, TypeOK, LivePulls, Subscribed

LEMMA ServeTypes ==
  ASSUME TypeInv, NEW p \in pulls, handle_snapshot_server(p)
  PROVE  TypeInv'
PROOF
  <1> USE DEF TypeInv
  <1>1. p \in Pull
    BY DEF TypeOK
  <1>2. /\ authorized' \in [Node -> [Node -> MaybeGrant]]
        /\ spent' \in [Node -> SUBSET Grant]
    <2>1. CASE Presents(p.from, p.by, p.grant) /\ present_grant(p.from, p.by, p.grant)
      <3>1. p.grant \in Grant
        BY <2>1, GrantAssumption, <1>1 DEF Presents, check_at, Pull
      <3> QED BY <2>1, <3>1, <1>1 DEF present_grant, TypeOK, Pull, MaybeGrant
    <2>2. CASE UNCHANGED <<authorized, spent>>
      BY <2>2 DEF TypeOK
    <2> QED BY <2>1, <2>2 DEF handle_snapshot_server
  <1>3. served' \subseteq Node \X Node \X Grant
    BY <1>1 DEF handle_snapshot_server, Honours, TypeOK, Pull, MaybeGrant
  <1>4. /\ topic' \in [Node -> Topic \cup {None}]
        /\ pulls' \subseteq Pull /\ LivePulls'
    <2>1. CASE pulls' = (pulls \ {p}) \cup {Snapshot(p)} /\ UNCHANGED topic
      <3>1. Snapshot(p) \in Pull /\ Snapshot(p).by = p.by /\ Snapshot(p).current = p.current
        BY <1>1 DEF Snapshot, Pull, TypeOK
      <3> QED BY <2>1, <3>1, MoveType DEF TypeOK
    <2>2. CASE FailPull(p)
      BY <2>2, EndType DEF FailPull
    <2> QED BY <2>1, <2>2 DEF handle_snapshot_server
  <1>5. UNCHANGED <<group, rows, cmds, enforced, revoked, joins, faults>>
    BY DEF handle_snapshot_server, localVars, counters
  <1> QED BY <1>2, <1>3, <1>4, <1>5 DEF TypeOK

LEMMA FrameTypes ==
  ASSUME TypeInv, NEW p \in pulls, ApplyStructure(p) \/ ApplyContent(p)
  PROVE  TypeInv'
PROOF
  <1> USE DEF TypeInv
  <1>1. p \in Pull
    BY DEF TypeOK
  <1>2. group' \in [Node -> Node \cup {None}] /\ rows' \in [Node -> SUBSET Part]
    <2>1. /\ group \in [Node -> Node \cup {None}] /\ rows \in [Node -> SUBSET Part]
          /\ p.by \in Node /\ p.group \in Node \cup {None} /\ p.rows \in SUBSET Part
      BY <1>1 DEF TypeOK, Pull
    <2>2. CASE ApplyStructure(p)
      <3>1. /\ (IF group[p.by] = None THEN p.group ELSE group[p.by]) \in Node \cup {None}
            /\ (rows[p.by] \cup (p.rows \cap {"boards"})) \in SUBSET Part
        BY <2>1
      <3> QED BY <2>1, <2>2, <3>1 DEF ApplyStructure
    <2>3. CASE ApplyContent(p)
      <3>1. (IF "boards" \in rows[p.by] THEN rows[p.by] \cup p.rows ELSE rows[p.by])
              \in SUBSET Part
        BY <2>1
      <3> QED BY <2>1, <2>3, <3>1 DEF ApplyContent
    <2> QED BY <2>2, <2>3
  <1>3. /\ topic' \in [Node -> Topic \cup {None}]
        /\ pulls' \subseteq Pull /\ LivePulls'
    <2>1. CASE ApplyStructure(p)
      <3>1. /\ [p EXCEPT !.stage = "rest"] \in Pull
            /\ [p EXCEPT !.stage = "rest"].by = p.by
            /\ [p EXCEPT !.stage = "rest"].current = p.current
        BY <1>1 DEF Pull
      <3> QED BY <2>1, <3>1, MoveType DEF ApplyStructure, TypeOK
    <2>2. CASE ApplyContent(p)
      BY <2>2, EndType DEF ApplyContent
    <2> QED BY <2>1, <2>2
  <1>4. UNCHANGED <<cmds, authVars, joins, faults>>
    BY DEF ApplyStructure, ApplyContent, counters
  <1> QED BY <1>2, <1>3, <1>4 DEF TypeOK, authVars

LEMMA FailTypes ==
  ASSUME TypeInv, NEW p \in pulls, BreakPull(p) \/ LosePull(p)
  PROVE  TypeInv'
PROOF
  <1> USE DEF TypeInv
  <1>1. /\ topic' \in [Node -> Topic \cup {None}]
        /\ pulls' \subseteq Pull /\ LivePulls'
    BY EndType DEF BreakPull, LosePull, FailPull
  <1>2. joins' \in 0 .. MaxJoins /\ faults' \in 0 .. MaxFaults
    BY FaultType DEF BreakPull, LosePull, counters, TypeOK
  <1>3. UNCHANGED <<group, rows, cmds, authVars>>
    BY DEF BreakPull, LosePull, localVars
  <1> QED BY <1>1, <1>2, <1>3 DEF TypeOK, authVars

LEMMA RestartType ==
  ASSUME TypeInv, NEW n \in Node, Restart(n)
  PROVE  TypeInv'
PROOF
  <1> USE DEF TypeInv
  <1>1. topic' \in [Node -> Topic \cup {None}]
    BY NewTopicType DEF Restart, TypeOK, MaybeGrant
  <1>2. cmds' \in [Node -> Seq(Command)]
    BY DEF Restart, TypeOK
  <1>3. \A p \in pulls : p \in Pull /\ [p EXCEPT !.stage = "lost"] \in Pull
    BY DEF TypeOK, Pull
  <1>4. pulls' \subseteq Pull
    BY <1>3 DEF Restart
  <1>5. LivePulls'
    <2> SUFFICES ASSUME NEW q \in pulls', q.current
                 PROVE  topic'[q.by] # None
      BY DEF LivePulls, Subscribed
    <2>1. PICK p \in pulls : /\ p.by # n
                             /\ q = IF p.from = n THEN [p EXCEPT !.stage = "lost"] ELSE p
      BY DEF Restart
    <2>2. q.by = p.by /\ p.current /\ p.by \in Node
      BY <1>3, <2>1 DEF Pull
    <2> QED BY <2>1, <2>2 DEF Restart, TypeOK, LivePulls, Subscribed
  <1>6. /\ enforced' \in [Node -> BOOLEAN] /\ spent' \in [Node -> SUBSET Grant]
        /\ revoked' \in [Node -> SUBSET Grant] /\ served' \subseteq Node \X Node \X Grant
    BY DEF Restart, TypeOK
  <1>7. authorized' \in [Node -> [Node -> MaybeGrant]]
    BY DEF Restart, TypeOK, MaybeGrant
  <1>8. joins' \in 0 .. MaxJoins /\ faults' \in 0 .. MaxFaults
    BY FaultType DEF Restart
  <1>9. UNCHANGED <<group, rows>>
    BY DEF Restart, localVars
  <1> QED BY <1>1, <1>2, <1>4, <1>5, <1>6, <1>7, <1>8, <1>9 DEF TypeOK

LEMMA StutterType ==
  ASSUME TypeInv, UNCHANGED vars
  PROVE  TypeInv'
BY DEF TypeInv, TypeOK, LivePulls, Subscribed, vars

LEMMA TypeStep == TypeInv /\ [Next]_vars => TypeInv'
PROOF
  <1> SUFFICES ASSUME TypeInv, [Next]_vars PROVE TypeInv'
    OBVIOUS
  <1>1. CASE \E n \in Node : User(n)
    BY <1>1, UserTypes, LeaveType, AuthorityTypes DEF User
  <1>2. CASE \E n \in Node : NetworkActor(n) \/ Restart(n) \/ commit_snapshot_pick(n)
    BY <1>2, NetworkActorTypes, RestartType, PickType
  <1>3. CASE \E n, m \in Node : HearOffer(n, m) \/ handle_anti_entropy(n, m)
    BY <1>3, OfferType, RepairType
  <1>4. CASE \E p \in pulls : Stream(p) \/ BreakPull(p)
    BY <1>4, ServeTypes, FrameTypes, FailTypes DEF Stream
  <1>5. CASE UNCHANGED vars
    BY <1>5, StutterType
  <1> QED BY <1>1, <1>2, <1>3, <1>4, <1>5 DEF Next

(* Every state of every run has the declared types: queues hold commands,      *)
(* pulls are between devices, what is spent, revoked or served names a grant,  *)
(* an admission names a grant or is None, and the bounds are kept.  Nothing is *)
(* said here of which grant: that is AuthorizationsStand.                      *)
THEOREM JoinTypes == Spec => []TypeOK
PROOF
  <1>1. TypeInv => TypeOK
    BY DEF TypeInv
  <1> QED BY <1>1, InitType, TypeStep, PTL DEF Spec

-------------------------------------------------------------------------------
(* The read gate *)

LEMMA InitRead == Init => ReadInv
PROOF
  <1>1. Init => ServedIsSpent /\ OneReader
    BY DEF Init, ServedIsSpent, OneReader
  <1>2. Init => AuthorizationsStand
    BY DEF Init, AuthorizationsStand
  <1> QED BY <1>1, <1>2, InitType DEF ReadInv

(* A reader that a holder honours is the first one of that nonce there. *)
LEMMA HonouredIsFirst ==
  ASSUME ReadInv, NEW h \in Node, NEW p \in Node, NEW g, Honours(h, p, g),
         NEW s \in served, s[1] = h, s[3] = g
  PROVE  s[2] = p
PROOF
  <1>1. g \in spent[h]
    BY DEF ReadInv, ServedIsSpent
  <1>2. role_via_nonce(h, p, g)
    BY <1>1 DEF Honours, authorize_snapshot, Presents, Replayed, is_consumed
  <1>3. <<h, p, g>> \in served
    BY <1>2 DEF role_via_nonce, ReadInv, AuthorizationsStand
  <1> QED BY <1>3 DEF ReadInv, OneReader

LEMMA ServeRead ==
  ASSUME ReadInv, NEW p \in pulls, handle_snapshot_server(p)
  PROVE  ServedIsSpent' /\ OneReader' /\ AuthorizationsStand'
PROOF
  <1> DEFINE h == p.from
             r == p.by
             g == p.grant
  <1>1. h \in Node /\ r \in Node
    BY DEF ReadInv, TypeInv, TypeOK, Pull
  <1>2. /\ \A k \in Node : spent[k] \subseteq spent'[k]
        /\ Presents(h, r, g) => g \in spent'[h]
    <2>1. DOMAIN spent = Node
      BY DEF ReadInv, TypeInv, TypeOK
    <2>2. CASE Presents(h, r, g)
      <3>1. spent' = [spent EXCEPT ![h] = spent[h] \cup {g}]
        BY <2>2 DEF handle_snapshot_server, present_grant
      <3> QED BY <1>1, <2>1, <2>2, <3>1
    <2>3. CASE ~Presents(h, r, g)
      <3>1. spent' = spent
        BY <2>3 DEF handle_snapshot_server
      <3> QED BY <2>3, <3>1
    <2> QED BY <2>2, <2>3
  <1>3. served' = IF Honours(h, r, g) THEN served \cup {<<h, r, g>>} ELSE served
    BY DEF handle_snapshot_server
  <1>4. Honours(h, r, g) => g \in spent'[h]
    <2> SUFFICES ASSUME Honours(h, r, g) PROVE g \in spent'[h]
      OBVIOUS
    <2>1. CASE Presents(h, r, g)
      BY <2>1, <1>2
    <2>2. CASE role_via_nonce(h, r, g)
      BY <2>2, <1>1, <1>2 DEF role_via_nonce, ReadInv, AuthorizationsStand
    <2>3. CASE ~enforced[h]
      BY <2>3, <1>1, <1>2 DEF Honours, is_consumed
    <2> QED BY <2>1, <2>2, <2>3 DEF Honours, authorize_snapshot
  <1>5. ServedIsSpent'
    BY <1>1, <1>2, <1>3, <1>4 DEF ReadInv, TypeInv, TypeOK, ServedIsSpent
  <1>6. OneReader'
    BY <1>1, <1>3, HonouredIsFirst DEF ReadInv, OneReader
  <1>7. AuthorizationsStand'
    <2>1. CASE Presents(h, r, g)
      <3>1. /\ authorized' = [authorized EXCEPT ![h][r] = g]
            /\ revoked' = revoked
        BY <2>1 DEF handle_snapshot_server, present_grant
      <3>2. Honours(h, r, g) /\ g \notin revoked[h]
        BY <2>1, <1>1, GrantAssumption
           DEF Presents, Honours, authorize_snapshot, check_at
      <3>3. <<h, r, g>> \in served' /\ g \in spent'[h] \ revoked'[h]
        BY <3>1, <3>2, <1>3, <1>4
      <3>4. served \subseteq served'
        BY <1>3
      <3> QED BY <1>1, <1>2, <3>1, <3>3, <3>4 DEF ReadInv, TypeInv, TypeOK, AuthorizationsStand
    <2>2. CASE ~Presents(h, r, g)
      BY <2>2, <1>2, <1>3 DEF handle_snapshot_server, ReadInv, AuthorizationsStand
    <2> QED BY <2>1, <2>2
  <1> QED BY <1>5, <1>6, <1>7

LEMMA JoinRead ==
  ASSUME ReadInv, NEW n \in Node, JoinGroup(n)
  PROVE  ServedIsSpent' /\ OneReader' /\ AuthorizationsStand'
PROOF
  <1> DEFINE g == Head(cmds[n]).grant
  <1>1. UNCHANGED <<authorized, revoked>>
    BY DEF JoinGroup
  <1>2. CASE note_grant_used(n, g)
    <2>1. /\ \A k \in Node : spent[k] \subseteq spent'[k]
          /\ g \in spent'[n]
      BY <1>2 DEF note_grant_used, ReadInv, TypeInv, TypeOK
    <2>2. served' = IF g \in spent[n] THEN served ELSE served \cup {<<n, n, g>>}
      BY <1>2 DEF note_grant_used, is_consumed
    <2>3. ServedIsSpent'
      BY <2>1, <2>2 DEF ReadInv, TypeInv, TypeOK, ServedIsSpent
    <2>4. OneReader'
      BY <2>2 DEF ReadInv, OneReader, ServedIsSpent
    <2>5. AuthorizationsStand'
      BY <1>1, <2>1, <2>2 DEF ReadInv, AuthorizationsStand
    <2> QED BY <2>3, <2>4, <2>5
  <1>3. CASE UNCHANGED <<spent, served>>
    BY <1>1, <1>3 DEF ReadInv, ServedIsSpent, OneReader, AuthorizationsStand
  <1> QED BY <1>2, <1>3 DEF JoinGroup

LEMMA RevokeRead ==
  ASSUME ReadInv, NEW n \in Node, NEW g \in Grant, revoke(n, g)
  PROVE  ServedIsSpent' /\ OneReader' /\ AuthorizationsStand'
PROOF
  <1>1. UNCHANGED <<spent, served>>
    BY DEF revoke
  <1>2. revoked' = [revoked EXCEPT ![n] = @ \cup {g}]
    BY DEF revoke, RevokeGrant
  <1>3. \A h, p \in Node :
          authorized'[h][p] # None =>
            /\ authorized'[h][p] = authorized[h][p]
            /\ h = n => authorized'[h][p] # g
    BY DEF revoke, RevokeGrant, ReadInv, TypeInv, TypeOK
  <1>4. AuthorizationsStand'
    BY <1>1, <1>2, <1>3 DEF ReadInv, TypeInv, TypeOK, AuthorizationsStand
  <1> QED BY <1>1, <1>4 DEF ReadInv, ServedIsSpent, OneReader

LEMMA RestartRead ==
  ASSUME ReadInv, NEW n \in Node, Restart(n)
  PROVE  ServedIsSpent' /\ OneReader' /\ AuthorizationsStand'
PROOF
  <1>1. /\ served' = {s \in served : s[1] # n}
        /\ spent' = [spent EXCEPT ![n] = {}]
        /\ revoked' = [revoked EXCEPT ![n] = {}]
        /\ authorized' = [authorized EXCEPT ![n] = [p \in Node |-> None]]
    BY DEF Restart
  <1>2. ServedIsSpent'
    BY <1>1 DEF ReadInv, TypeInv, TypeOK, ServedIsSpent
  <1>3. OneReader'
    BY <1>1 DEF ReadInv, OneReader
  <1>4. AuthorizationsStand'
    <2> SUFFICES ASSUME NEW h \in Node, NEW p \in Node, authorized'[h][p] # None
                 PROVE  /\ <<h, p, authorized'[h][p]>> \in served'
                        /\ authorized'[h][p] \in spent'[h] \ revoked'[h]
      BY DEF AuthorizationsStand
    <2>1. h # n /\ authorized'[h][p] = authorized[h][p]
      BY <1>1 DEF ReadInv, TypeInv, TypeOK
    <2> QED BY <1>1, <2>1 DEF ReadInv, TypeInv, TypeOK, AuthorizationsStand
  <1> QED BY <1>2, <1>3, <1>4

(* Every other step leaves the authority alone. *)
LEMMA OtherRead ==
  ASSUME ReadInv, UNCHANGED <<spent, authorized, revoked, served>>
  PROVE  ServedIsSpent' /\ OneReader' /\ AuthorizationsStand'
BY DEF ReadInv, ServedIsSpent, OneReader, AuthorizationsStand

LEMMA ReadStep == ReadInv /\ [Next]_vars => ReadInv'
PROOF
  <1> SUFFICES ASSUME ReadInv, [Next]_vars PROVE ReadInv'
    OBVIOUS
  <1>1. TypeInv'
    BY TypeStep DEF ReadInv
  <1>2. ServedIsSpent' /\ OneReader' /\ AuthorizationsStand'
    <2>1. CASE \E n \in Node : User(n)
      <3>1. PICK n \in Node : User(n)
        BY <2>1
      <3>2. CASE \E g \in Grant : revoke(n, g)
        BY <3>2, RevokeRead
      <3>3. CASE ~\E g \in Grant : revoke(n, g)
        <4>1. UNCHANGED <<spent, authorized, revoked, served>>
          BY <3>1, <3>3 DEF User, join_from_invite, join_group_grant, Leave, enforce_group, authVars
        <4> QED BY <4>1, OtherRead
      <3> QED BY <3>2, <3>3
    <2>2. CASE \E n \in Node : NetworkActor(n)
      <3>1. PICK n \in Node : NetworkActor(n)
        BY <2>2
      <3>2. CASE JoinGroup(n)
        BY <3>2, JoinRead
      <3>3. CASE SeedGroupPeer(n) \/ LeaveTopic(n)
        <4>1. UNCHANGED <<spent, authorized, revoked, served>>
          BY <3>3 DEF SeedGroupPeer, LeaveTopic, authVars
        <4> QED BY <4>1, OtherRead
      <3> QED BY <3>1, <3>2, <3>3 DEF NetworkActor
    <2>3. CASE \E n \in Node : Restart(n)
      BY <2>3, RestartRead
    <2>4. CASE \E n \in Node : commit_snapshot_pick(n)
      <3>1. UNCHANGED <<spent, authorized, revoked, served>>
        BY <2>4 DEF commit_snapshot_pick, authVars
      <3> QED BY <3>1, OtherRead
    <2>5. CASE \E n, m \in Node : HearOffer(n, m) \/ handle_anti_entropy(n, m)
      <3>1. UNCHANGED <<spent, authorized, revoked, served>>
        BY <2>5 DEF HearOffer, handle_anti_entropy, authVars
      <3> QED BY <3>1, OtherRead
    <2>6. CASE \E p \in pulls : handle_snapshot_server(p)
      BY <2>6, ServeRead
    <2>7. CASE \E p \in pulls : ApplyStructure(p) \/ ApplyContent(p) \/ LosePull(p) \/ BreakPull(p)
      <3>1. UNCHANGED <<spent, authorized, revoked, served>>
        BY <2>7 DEF ApplyStructure, ApplyContent, LosePull, BreakPull, authVars
      <3> QED BY <3>1, OtherRead
    <2>8. CASE UNCHANGED vars
      <3>1. UNCHANGED <<spent, authorized, revoked, served>>
        BY <2>8 DEF vars
      <3> QED BY <3>1, OtherRead
    <2> QED BY <2>1, <2>2, <2>3, <2>4, <2>5, <2>6, <2>7, <2>8 DEF Next, Stream
  <1> QED BY <1>1, <1>2 DEF ReadInv

(* A nonce that a holder has honoured, or spent itself to join, lets in no     *)
(* second peer while the holder runs, however presentations, retries,          *)
(* revocations and the switching on of enforcement interleave.                 *)
THEOREM GrantsAreSingleUse == Spec => []OneReader
PROOF
  <1>1. ReadInv => OneReader
    BY DEF ReadInv
  <1> QED BY <1>1, InitRead, ReadStep, PTL DEF Spec

(* An admitted peer's grant was spent on that peer and stands unrevoked.       *)
THEOREM AuthorizationsAreStanding == Spec => []AuthorizationsStand
PROOF
  <1>1. ReadInv => AuthorizationsStand
    BY DEF ReadInv
  <1> QED BY <1>1, InitRead, ReadStep, PTL DEF Spec

-------------------------------------------------------------------------------
(* The repair slot *)

SlotInv == TypeInv /\ SlotHeld

(* No actor, no repair of its own. *)
LEMMA NoActorNoRepair ==
  ASSUME TypeInv, NEW n \in Node, ~Subscribed(n)
  PROVE  Repairs(n) = {}
BY DEF TypeInv, LivePulls, Repairs

LEMMA FreshTopic ==
  ASSUME NEW g
  PROVE  NewTopic(g).repairing = FALSE
BY DEF NewTopic

(* No pull of n starts or ends, and its actor stays, stops or starts. *)
LEMMA SlotStays ==
  ASSUME SlotInv, NEW n \in Node, Repairs(n)' = Repairs(n),
         topic'[n] # None =>
           \/ Subscribed(n) /\ topic'[n].repairing = topic[n].repairing
           \/ ~Subscribed(n) /\ topic'[n].repairing = FALSE
  PROVE  Subscribed(n)' => /\ topic'[n].repairing <=> Repairs(n)' # {}
                           /\ \A p, q \in Repairs(n)' : p = q
PROOF
  <1>1. CASE topic'[n] = None
    BY <1>1 DEF Subscribed
  <1>2. CASE Subscribed(n) /\ topic'[n].repairing = topic[n].repairing
    BY <1>2 DEF SlotInv, SlotHeld
  <1>3. CASE ~Subscribed(n) /\ topic'[n].repairing = FALSE
    BY <1>3, NoActorNoRepair DEF SlotInv
  <1> QED BY <1>1, <1>2, <1>3

(* Steps that touch no pull and no flag. *)
LEMMA QuietSlot ==
  ASSUME SlotInv, UNCHANGED pulls,
         \A m \in Node :
           \/ topic'[m] = topic[m]
           \/ Subscribed(m) /\ topic'[m].repairing = topic[m].repairing
           \/ ~Subscribed(m) /\ topic'[m].repairing = FALSE
  PROVE  SlotHeld'
PROOF
  <1>1. \A m \in Node : Repairs(m)' = Repairs(m)
    BY DEF Repairs
  <1> QED BY <1>1, SlotStays DEF SlotHeld, Subscribed

LEMMA SpawnSlot ==
  ASSUME SlotInv, NEW n \in Node, NEW g, UNCHANGED pulls,
         topic' = [topic EXCEPT ![n] = spawn_topic_actor(n, g)]
  PROVE  SlotHeld'
PROOF
  <1>1. \A m \in Node : topic'[m] = IF m = n THEN spawn_topic_actor(n, g) ELSE topic[m]
    BY DEF SlotInv, TypeInv, TypeOK
  <1>2. \A m \in Node : topic'[m] = topic[m] \/ (~Subscribed(m) /\ topic'[m].repairing = FALSE)
    BY <1>1, FreshTopic DEF spawn_topic_actor
  <1> QED BY <1>2, QuietSlot

LEMMA NetworkActorSlot ==
  ASSUME SlotInv, NEW n \in Node, NetworkActor(n)
  PROVE  SlotHeld'
PROOF
  <1>1. CASE JoinGroup(n)
    <2>1. UNCHANGED pulls
      BY <1>1 DEF JoinGroup
    <2>2. CASE UNCHANGED topic
      BY <2>1, <2>2, QuietSlot
    <2>3. CASE topic' = [topic EXCEPT ![n] = spawn_topic_actor(n, Head(cmds[n]).grant)]
      BY <2>1, <2>3, SpawnSlot
    <2> QED BY <1>1, <2>2, <2>3 DEF JoinGroup
  <1>2. CASE SeedGroupPeer(n)
    BY <1>2, SpawnSlot DEF SeedGroupPeer
  <1>3. CASE LeaveTopic(n)
    <2>1. topic' = [topic EXCEPT ![n] = None] /\ pulls \subseteq Pull
      BY <1>3 DEF LeaveTopic, SlotInv, TypeInv, TypeOK
    <2>2. \A m \in Node : topic'[m] = IF m = n THEN None ELSE topic[m]
      BY <2>1 DEF SlotInv, TypeInv, TypeOK
    <2>3. ASSUME NEW m \in Node, m # n PROVE Repairs(m)' = Repairs(m)
      <3>1. pulls' = {IF p.by = n THEN [p EXCEPT !.current = FALSE] ELSE p : p \in pulls}
        BY <1>3 DEF LeaveTopic
      <3>2. \A p \in pulls : [p EXCEPT !.current = FALSE].by = p.by
        BY <2>1 DEF Pull
      <3> QED BY <2>3, <3>1, <3>2 DEF Repairs
    <2> QED BY <2>2, <2>3, SlotStays DEF SlotHeld, Subscribed
  <1> QED BY <1>1, <1>2, <1>3 DEF NetworkActor

(* An offer, or the join pull, of an actor. *)
LEMMA SearchSlot ==
  ASSUME SlotInv, NEW n \in Node,
         commit_snapshot_pick(n) \/ \E m \in Node : HearOffer(n, m)
  PROVE  SlotHeld'
PROOF
  <1>1. Subscribed(n) /\ topic[n] \in Topic
    BY DEF commit_snapshot_pick, HearOffer, SlotInv, TypeInv, TypeOK, Subscribed
  <1>2. topic'[n].repairing = topic[n].repairing /\ \A m \in Node : m # n => topic'[m] = topic[m]
    BY <1>1 DEF commit_snapshot_pick, HearOffer, SlotInv, TypeInv, TypeOK, Topic
  <1>3. \A m \in Node : Repairs(m)' = Repairs(m)
    <2>1. CASE commit_snapshot_pick(n)
      <3>1. PICK h : pulls' = pulls \cup {NewPull(n, h, "join")}
        BY <2>1 DEF commit_snapshot_pick
      <3>2. NewPull(n, h, "join").kind # "repair"
        BY DEF NewPull
      <3> QED BY <3>1, <3>2 DEF Repairs
    <2>2. CASE \E m \in Node : HearOffer(n, m)
      BY <2>2 DEF HearOffer, Repairs
    <2> QED BY <2>1, <2>2
  <1> QED BY <1>1, <1>2, <1>3, SlotStays DEF SlotHeld, Subscribed

(* The slot is taken only when it is free, so the new repair is the only one. *)
LEMMA ClaimSlot ==
  ASSUME SlotInv, NEW n \in Node, NEW h \in Node, handle_anti_entropy(n, h)
  PROVE  SlotHeld'
PROOF
  <1> DEFINE new == NewPull(n, h, "repair")
  <1>1. topic[n] \in Topic /\ Subscribed(n) /\ ~topic[n].repairing
    BY DEF handle_anti_entropy, SlotInv, TypeInv, TypeOK, Subscribed
  <1>2. topic'[n].repairing = TRUE /\ \A m \in Node : m # n => topic'[m] = topic[m]
    BY <1>1 DEF handle_anti_entropy, SlotInv, TypeInv, TypeOK, Topic
  <1>3. new.by = n /\ new.kind = "repair" /\ new.current
    BY DEF NewPull
  <1>4. pulls' = pulls \cup {new}
    BY DEF handle_anti_entropy
  <1> HIDE DEF new
  <1>5. Repairs(n) = {}
    BY <1>1 DEF SlotInv, SlotHeld
  <1>6. Repairs(n)' = {new}
    BY <1>3, <1>4, <1>5 DEF Repairs
  <1>7. \A m \in Node : m # n => Repairs(m)' = Repairs(m)
    BY <1>3, <1>4 DEF Repairs
  <1>8. ASSUME NEW m \in Node, m # n
        PROVE  Subscribed(m)' => /\ topic'[m].repairing <=> Repairs(m)' # {}
                                 /\ \A p, q \in Repairs(m)' : p = q
    BY <1>2, <1>7, <1>8, SlotStays DEF Subscribed
  <1>9. /\ topic'[n].repairing <=> Repairs(n)' # {}
        /\ \A p, q \in Repairs(n)' : p = q
    BY <1>2, <1>6
  <1> QED BY <1>8, <1>9 DEF SlotHeld

(* A pull moves on: what identifies it as its actor's repair stays. *)
LEMMA MoveSlot ==
  ASSUME SlotInv, NEW p \in pulls, NEW q,
         q.by = p.by, q.kind = p.kind, q.current = p.current,
         pulls' = (pulls \ {p}) \cup {q}, UNCHANGED topic
  PROVE  SlotHeld'
PROOF
  <1> SUFFICES ASSUME NEW n \in Node, Subscribed(n)
               PROVE  /\ topic[n].repairing <=> Repairs(n)' # {}
                      /\ \A x, y \in Repairs(n)' : x = y
    BY DEF SlotHeld, Subscribed
  <1>0. /\ topic[n].repairing <=> Repairs(n) # {}
        /\ \A x, y \in Repairs(n) : x = y
    BY DEF SlotInv, SlotHeld
  <1>1. CASE p \in Repairs(n)
    <2>1. Repairs(n) = {p}
      BY <1>0, <1>1
    <2>2. Repairs(n)' = {q}
      BY <1>1, <2>1 DEF Repairs
    <2> QED BY <1>0, <2>1, <2>2
  <1>2. CASE p \notin Repairs(n)
    <2>1. Repairs(n)' = Repairs(n)
      BY <1>2 DEF Repairs
    <2> QED BY <1>0, <2>1
  <1> QED BY <1>1, <1>2

(* The end of a repair gives back the slot of the actor that runs it, and only *)
(* that one's.                                                                 *)
LEMMA EndSlot ==
  ASSUME SlotInv, NEW p \in pulls, EndPull(p)
  PROVE  SlotHeld'
PROOF
  <1>1. p \in Pull /\ pulls' = pulls \ {p} /\ topic' = Released(p)
    BY DEF SlotInv, TypeInv, TypeOK, EndPull
  <1>2. CASE p.kind = "repair" /\ p.current
    <2>1. p.by \in Node /\ Subscribed(p.by) /\ topic[p.by] \in Topic
      BY <1>1, <1>2 DEF SlotInv, TypeInv, TypeOK, LivePulls, Subscribed, Pull
    <2>2. topic'[p.by].repairing = FALSE /\ \A m \in Node : m # p.by => topic'[m] = topic[m]
      BY <1>1, <1>2, <2>1 DEF Released, SlotInv, TypeInv, TypeOK, Topic
    <2>3. p \in Repairs(p.by)
      BY <1>2 DEF Repairs
    <2>4. Repairs(p.by) = {p}
      BY <2>1, <2>3 DEF SlotInv, SlotHeld
    <2>5. Repairs(p.by)' = {}
      BY <1>1, <2>4 DEF Repairs
    <2>6. \A m \in Node : m # p.by => Repairs(m)' = Repairs(m)
      BY <1>1 DEF Repairs
    <2>7. ASSUME NEW m \in Node, m # p.by
          PROVE  Subscribed(m)' => /\ topic'[m].repairing <=> Repairs(m)' # {}
                                   /\ \A x, y \in Repairs(m)' : x = y
      BY <2>2, <2>6, <2>7, SlotStays DEF Subscribed
    <2>8. /\ topic'[p.by].repairing <=> Repairs(p.by)' # {}
          /\ \A x, y \in Repairs(p.by)' : x = y
      BY <2>2, <2>5
    <2> QED BY <2>7, <2>8 DEF SlotHeld
  <1>3. CASE ~(p.kind = "repair" /\ p.current)
    <2>1. UNCHANGED topic
      BY <1>1, <1>3 DEF Released
    <2>2. \A m \in Node : Repairs(m)' = Repairs(m)
      BY <1>1, <1>3 DEF Repairs
    <2> QED BY <2>1, <2>2, SlotStays DEF SlotHeld, Subscribed
  <1> QED BY <1>2, <1>3

LEMMA StreamSlot ==
  ASSUME SlotInv, NEW p \in pulls, Stream(p) \/ BreakPull(p)
  PROVE  SlotHeld'
PROOF
  <1>1. p \in Pull
    BY DEF SlotInv, TypeInv, TypeOK
  <1>2. CASE EndPull(p)
    BY <1>2, EndSlot
  <1>3. CASE pulls' = (pulls \ {p}) \cup {Snapshot(p)} /\ UNCHANGED topic
    <2>1. Snapshot(p).by = p.by /\ Snapshot(p).kind = p.kind /\ Snapshot(p).current = p.current
      BY <1>1 DEF Snapshot, Pull
    <2> QED BY <1>3, <2>1, MoveSlot
  <1>4. CASE ApplyStructure(p)
    <2> DEFINE q == [p EXCEPT !.stage = "rest"]
    <2>1. q.by = p.by /\ q.kind = p.kind /\ q.current = p.current
      BY <1>1 DEF Pull
    <2>2. pulls' = (pulls \ {p}) \cup {q} /\ UNCHANGED topic
      BY <1>4 DEF ApplyStructure
    <2> HIDE DEF q
    <2> QED BY <2>1, <2>2, MoveSlot
  <1> QED BY <1>2, <1>3, <1>4
      DEF Stream, handle_snapshot_server, ApplyContent, LosePull, BreakPull, FailPull

LEMMA RestartSlot ==
  ASSUME SlotInv, NEW n \in Node, Restart(n)
  PROVE  SlotHeld'
PROOF
  <1>1. /\ topic'[n] = IF group[n] = None THEN None ELSE NewTopic(None)
        /\ \A m \in Node : m # n => topic'[m] = topic[m]
    BY DEF Restart, SlotInv, TypeInv, TypeOK
  <1>2. pulls \subseteq Pull
    BY DEF SlotInv, TypeInv, TypeOK
  <1>3. pulls' = {IF p.from = n THEN [p EXCEPT !.stage = "lost"] ELSE p :
                    p \in {q \in pulls : q.by # n}}
    BY DEF Restart
  <1> DEFINE Lost(p) == IF p.from = n THEN [p EXCEPT !.stage = "lost"] ELSE p
  <1>4. \A p \in pulls : /\ Lost(p).by = p.by /\ Lost(p).kind = p.kind
                         /\ Lost(p).current = p.current
    BY <1>2 DEF Pull
  <1>5. pulls' = {Lost(p) : p \in {q \in pulls : q.by # n}}
    BY <1>3
  <1> HIDE DEF Lost
  <1>6. Repairs(n)' = {}
    BY <1>4, <1>5 DEF Repairs
  <1>7. \A m \in Node : m # n => Repairs(m)' = {Lost(p) : p \in Repairs(m)}
    BY <1>4, <1>5 DEF Repairs
  <1> SUFFICES ASSUME NEW m \in Node, Subscribed(m)'
               PROVE  /\ topic'[m].repairing <=> Repairs(m)' # {}
                      /\ \A x, y \in Repairs(m)' : x = y
    BY DEF SlotHeld
  <1>8. CASE m = n
    <2>1. topic'[m].repairing = FALSE
      BY <1>1, <1>8, FreshTopic DEF Subscribed
    <2> QED BY <1>6, <1>8, <2>1
  <1>9. CASE m # n
    <2>1. topic'[m] = topic[m] /\ Subscribed(m) /\ Repairs(m)' = {Lost(p) : p \in Repairs(m)}
      BY <1>1, <1>7, <1>9 DEF Subscribed
    <2>2. /\ topic[m].repairing <=> Repairs(m) # {}
          /\ \A x, y \in Repairs(m) : x = y
      BY <2>1 DEF SlotInv, SlotHeld
    <2>3. Repairs(m)' # {} <=> Repairs(m) # {}
      BY <2>1
    <2>4. \A x, y \in Repairs(m)' : x = y
      BY <2>1, <2>2
    <2> QED BY <2>1, <2>2, <2>3, <2>4
  <1> QED BY <1>8, <1>9

LEMMA SlotStep == SlotInv /\ [Next]_vars => SlotInv'
PROOF
  <1> SUFFICES ASSUME SlotInv, [Next]_vars PROVE SlotHeld'
    BY TypeStep DEF SlotInv
  <1>1. CASE (\E n \in Node : User(n)) \/ UNCHANGED vars
    <2>1. UNCHANGED <<topic, pulls>>
      BY <1>1 DEF User, join_from_invite, join_group_grant, Leave, enforce_group, revoke, vars
    <2> QED BY <2>1, QuietSlot
  <1>2. CASE \E n \in Node : NetworkActor(n)
    BY <1>2, NetworkActorSlot
  <1>3. CASE \E n \in Node : Restart(n)
    BY <1>3, RestartSlot
  <1>4. CASE \E n \in Node : commit_snapshot_pick(n) \/ \E m \in Node : HearOffer(n, m)
    BY <1>4, SearchSlot
  <1>5. CASE \E n, m \in Node : handle_anti_entropy(n, m)
    BY <1>5, ClaimSlot
  <1>6. CASE \E p \in pulls : Stream(p) \/ BreakPull(p)
    BY <1>6, StreamSlot
  <1> QED BY <1>1, <1>2, <1>3, <1>4, <1>5, <1>6 DEF Next

(* For any number of devices and pulls in flight, a topic actor's repair slot  *)
(* is taken exactly while one repair of its own runs, whoever leaves, joins    *)
(* again, restarts or breaks off meanwhile.                                    *)
THEOREM SlotIsItsActors == Spec => []SlotHeld
PROOF
  <1>1. Init => SlotInv
    <2>1. Init => SlotHeld
      <3> SUFFICES ASSUME Init PROVE SlotHeld
        OBVIOUS
      <3>1. \A n \in Node : Repairs(n) = {}
        BY DEF Init, Repairs
      <3>2. \A n \in Node : topic[n] = IF n = Founder THEN NewTopic(None) ELSE None
        BY DEF Init
      <3> QED BY <3>1, <3>2, FreshTopic DEF SlotHeld, Subscribed
    <2> QED BY <2>1, InitType DEF SlotInv
  <1>2. SlotInv => SlotHeld
    BY DEF SlotInv
  <1> QED BY <1>1, <1>2, SlotStep, PTL DEF Spec

===============================================================================
