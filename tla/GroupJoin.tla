------------------------------- MODULE GroupJoin -------------------------------
(* How a device enters a group and gets its rows: the join command with its    *)
(* grant, the topic actor's search for a holder, the pulls, the holder's read  *)
(* gate, leaving, revocation and restarts.                                     *)
(* Code: actors/network_actor.rs, actors/topic_actor.rs, identity/.            *)
(*                                                                             *)
(* One group.  Its rows come in the two parts a broken stream can separate:    *)
(* "boards" (the Structure frame) and "rest" (the frames after it); single     *)
(* rows, edits and deletes are AntiEntropy.tla's.  Who is a direct neighbour   *)
(* of whom is left open: any two subscribers may meet, part and meet again.    *)
EXTENDS Integers, FiniteSets, Sequences

CONSTANTS
  Node,
  Founder,      \* the device that created the group
  Grant,        \* signed capability grants, one nonce each
  Invites,      \* the grants (or None) a device may join with
  Scanners,     \* devices that scan an invite; the others get a plain join
  Trusted,      \* grants a device accepts: signed, unexpired, issued by an admin
  Enforcers,    \* devices told to enforce grants
  Leavers,      \* devices whose user may leave the group
  Readers,      \* devices whose pulls are explored
  None,
  MaxJoins,     \* bound on join requests
  MaxFaults,    \* bound on leaves, revocations, restarts and broken streams
  MaxPulls      \* bound on streams in flight

ASSUME NodeAssumption == /\ Founder \in Node
                         /\ Scanners \cup Enforcers \cup Leavers \cup Readers \subseteq Node
ASSUME GrantAssumption == /\ None \notin Grant /\ None \notin Node
                          /\ Invites \in [Node -> SUBSET (Grant \cup {None})]
                          /\ Trusted \in [Node -> SUBSET Grant]
ASSUME BoundAssumption == {MaxJoins, MaxFaults, MaxPulls} \subseteq Nat

VARIABLES
  group,       \* whose clock stamped the local group row; None: no such row
  rows,        \* the parts of the group stored locally
  topic,       \* the topic actor; None: not subscribed
  cmds,        \* the network actor's command queue
  pulls,       \* snapshot streams in flight
  enforced,    \* groups enforced by the local authorizer
  spent,       \* nonces the local authorizer has seen
  authorized,  \* the grant by which it admitted each peer
  revoked,     \* and the grants it was told to revoke
  served,      \* <<holder, reader, grant>> since the holder's last start (history)
  joins,       \* number of join requests
  faults       \* number of faults

localVars == <<group, rows>>
counters == <<joins, faults>>
authVars == <<enforced, spent, authorized, revoked, served>>
vars == <<group, rows, topic, cmds, pulls, enforced, spent, authorized, revoked, served,
          joins, faults>>

Part == {"boards", "rest"}

MaybeGrant == Grant \cup {None}

Topic == [need : BOOLEAN, offers : SUBSET Node, grant : MaybeGrant, repairing : BOOLEAN]

ASSUME NoneAssumption == None \notin Topic

Command == [op : {"join", "seed", "leave"}, grant : MaybeGrant]

Pull == [by : Node, from : Node, grant : MaybeGrant, kind : {"join", "repair"},
         stage : {"asked", "first", "rest", "lost"}, group : Node \cup {None},
         rows : SUBSET Part, current : BOOLEAN]

Fault ==
  /\ faults < MaxFaults
  /\ faults' = faults + 1
  /\ UNCHANGED joins

(* A new topic actor always wants a snapshot. *)
NewTopic(g) == [need |-> TRUE, offers |-> {}, grant |-> g, repairing |-> FALSE]

Init ==
  /\ group = [n \in Node |-> IF n = Founder THEN Founder ELSE None]
  /\ rows = [n \in Node |-> IF n = Founder THEN Part ELSE {}]
  /\ topic = [n \in Node |-> IF n = Founder THEN NewTopic(None) ELSE None]
  /\ cmds = [n \in Node |-> <<>>]
  /\ pulls = {}
  /\ enforced = [n \in Node |-> n \in Enforcers]
  /\ spent = [n \in Node |-> {}]
  /\ authorized = [n \in Node |-> [p \in Node |-> None]]
  /\ revoked = [n \in Node |-> {}]
  /\ served = {}
  /\ joins = 0
  /\ faults = 0

-------------------------------------------------------------------------------
(* The app's side: an invite's QR, a plain join, leaving. *)

Enqueue(n, new) == cmds' = [cmds EXCEPT ![n] = @ \o new]

Join(g) == [op |-> "join", grant |-> g]
Seed == [op |-> "seed", grant |-> None]
LeaveGroup == [op |-> "leave", grant |-> None]

(* Scanning an invite writes the group row under this device's own clock; the  *)
(* inviter's address follows the join through the same queue.                  *)
join_from_invite(n, g) ==
  /\ joins < MaxJoins
  /\ group[n] = None
  /\ group' = [group EXCEPT ![n] = n]
  /\ Enqueue(n, <<Join(g), Seed>>)
  /\ joins' = joins + 1
  /\ UNCHANGED <<rows, topic, pulls, authVars, faults>>

(* The node binary and sign-on join without a row of their own. *)
join_group_grant(n, g) ==
  /\ joins < MaxJoins
  /\ Enqueue(n, <<Join(g)>>)
  /\ joins' = joins + 1
  /\ UNCHANGED <<localVars, topic, pulls, authVars, faults>>

(* group_delete first, then the network actor is told. *)
Leave(n) ==
  /\ group[n] # None
  /\ group' = [group EXCEPT ![n] = None]
  /\ rows' = [rows EXCEPT ![n] = {}]
  /\ Enqueue(n, <<LeaveGroup>>)
  /\ Fault
  /\ UNCHANGED <<topic, pulls, authVars>>

-------------------------------------------------------------------------------
(* MeshAuthorizer and GrantVerifier. *)

(* Mutant: the signature and the issuer are not looked at. *)
CheckUnrevoked(n, g) == g \notin revoked[n]

(* The nonce is left alone. *)
check_at(n, g) == g \in Trusted[n] \ revoked[n]

authorize_join(n, g) == ~enforced[n] \/ check_at(n, g)

(* Mutant: any admitted peer makes a nonce good again. *)
RoleViaAnyone(h, p, g) == g # None /\ \E q \in Node : authorized[h][q] = g

(* The peer this very nonce admitted may pull again. *)
role_via_nonce(h, p, g) == g # None /\ authorized[h][p] = g

is_consumed(h, g) == g \in spent[h]

Replayed(h, p, g) == ~role_via_nonce(h, p, g) /\ is_consumed(h, g)

(* An enforcing holder takes an unseen, valid grant and spends it. *)
Presents(h, p, g) ==
  ~role_via_nonce(h, p, g) /\ ~is_consumed(h, g) /\ enforced[h] /\ check_at(h, g)

authorize_snapshot(h, p, g) ==
  \/ role_via_nonce(h, p, g)
  \/ ~Replayed(h, p, g) /\ ~enforced[h]
  \/ Presents(h, p, g)

(* Admitted by this nonce, and not just because the holder asks nobody. *)
Honours(h, p, g) ==
  g # None /\ authorize_snapshot(h, p, g) /\ (enforced[h] \/ is_consumed(h, g))

present_grant(h, p, g) ==
  /\ authorized' = [authorized EXCEPT ![h][p] = g]
  /\ spent' = [spent EXCEPT ![h] = @ \cup {g}]

(* The joiner's own authority remembers the grant it is about to spend. *)
note_grant_used(n, g) ==
  /\ spent' = [spent EXCEPT ![n] = @ \cup {g}]
  /\ served' = IF is_consumed(n, g) THEN served ELSE served \cup {<<n, n, g>>}

(* Mutant: peers admitted by the grant keep their place. *)
TombstoneOnly(n, g) ==
  /\ revoked' = [revoked EXCEPT ![n] = @ \cup {g}]
  /\ UNCHANGED authorized

RevokeGrant(n, g) ==
  /\ revoked' = [revoked EXCEPT ![n] = @ \cup {g}]
  /\ authorized' =
       [authorized EXCEPT ![n] = [p \in Node |-> IF @[p] = g THEN None ELSE @[p]]]

revoke(n, g) ==
  /\ g \notin revoked[n]
  /\ RevokeGrant(n, g)
  /\ Fault
  /\ UNCHANGED <<localVars, topic, cmds, pulls, enforced, spent, served>>

enforce_group(n) ==
  /\ ~enforced[n]
  /\ enforced' = [enforced EXCEPT ![n] = TRUE]
  /\ UNCHANGED <<localVars, topic, cmds, pulls, spent, authorized, revoked, served,
                 counters>>

-------------------------------------------------------------------------------
(* The network actor works off its queue, one command at a time. *)

Subscribed(n) == topic[n] # None

Take(n) == cmds' = [cmds EXCEPT ![n] = Tail(@)]

(* An existing topic actor keeps the grant it was started with. *)
spawn_topic_actor(n, g) ==
  IF Subscribed(n) THEN topic[n] ELSE NewTopic(g)

JoinGroup(n) ==
  /\ cmds[n] # <<>> /\ Head(cmds[n]).op = "join"
  /\ LET g == Head(cmds[n]).grant IN
       IF authorize_join(n, g)
       THEN /\ topic' = [topic EXCEPT ![n] = spawn_topic_actor(n, g)]
            /\ IF g = None THEN UNCHANGED <<spent, served>> ELSE note_grant_used(n, g)
       ELSE UNCHANGED <<topic, spent, served>>
  /\ Take(n)
  /\ UNCHANGED <<localVars, pulls, enforced, authorized, revoked, counters>>

(* A seed starts the topic if the join before it was refused. *)
SeedGroupPeer(n) ==
  /\ cmds[n] # <<>> /\ Head(cmds[n]).op = "seed"
  /\ topic' = [topic EXCEPT ![n] = spawn_topic_actor(n, None)]
  /\ Take(n)
  /\ UNCHANGED <<localVars, pulls, authVars, counters>>

(* The actor stops; the pulls it started run on. *)
LeaveTopic(n) ==
  /\ cmds[n] # <<>> /\ Head(cmds[n]).op = "leave"
  /\ topic' = [topic EXCEPT ![n] = None]
  /\ pulls' = {IF p.by = n THEN [p EXCEPT !.current = FALSE] ELSE p : p \in pulls}
  /\ Take(n)
  /\ UNCHANGED <<localVars, authVars, counters>>

-------------------------------------------------------------------------------
(* The topic actor looks for a holder. *)

(* A request of n (RequestSnapshot, or NeighborUp while it needs one) and the  *)
(* answer of m, or the offer m makes by itself when it meets a neighbour.  Any *)
(* subscriber offers, one that has no rows itself included.  Nothing is kept   *)
(* of the exchange but the offer, and only while one is needed; each message   *)
(* may be lost and each is sent again when neighbours meet again.              *)
HearOffer(n, m) ==
  /\ n # m /\ Subscribed(n) /\ Subscribed(m)
  /\ topic[n].need
  /\ topic' = [topic EXCEPT ![n].offers = @ \cup {m}]
  /\ UNCHANGED <<localVars, cmds, pulls, authVars, counters>>

MayPull(n) == n \in Readers /\ Cardinality(pulls) < MaxPulls

NewPull(n, h, kind) ==
  [by |-> n, from |-> h, grant |-> topic[n].grant, kind |-> kind, stage |-> "asked",
   group |-> None, rows |-> {}, current |-> TRUE]

(* One of the offerers is picked; the need is met from here on, whatever       *)
(* becomes of the pull.                                                        *)
commit_snapshot_pick(n) ==
  /\ Subscribed(n) /\ topic[n].need
  /\ MayPull(n)
  /\ \E h \in topic[n].offers : pulls' = pulls \cup {NewPull(n, h, "join")}
  /\ topic' = [topic EXCEPT ![n].need = FALSE, ![n].offers = {}]
  /\ UNCHANGED <<localVars, cmds, authVars, counters>>

RowCount(n) == Cardinality(rows[n]) + (IF group[n] = None THEN 0 ELSE 1)

(* A sweep of m reaches n: m has rows, the digests differ and m is not behind; *)
(* one repair at a time.                                                       *)
handle_anti_entropy(n, m) ==
  /\ n # m /\ Subscribed(n) /\ Subscribed(m)
  /\ group[m] # None
  /\ <<group[n], rows[n]>> # <<group[m], rows[m]>>
  /\ RowCount(m) >= RowCount(n)
  /\ ~topic[n].repairing
  /\ MayPull(n)
  /\ pulls' = pulls \cup {NewPull(n, m, "repair")}
  /\ topic' = [topic EXCEPT ![n].repairing = TRUE]
  /\ UNCHANGED <<localVars, cmds, authVars, counters>>

-------------------------------------------------------------------------------
(* A pull: the holder's gate, the frames, the end of the stream. *)

(* The repair slot is given back however the pull ends. *)
Released(p) ==
  IF p.kind = "repair" /\ p.current
  THEN [topic EXCEPT ![p.by].repairing = FALSE]
  ELSE topic

EndPull(p) == pulls' = pulls \ {p} /\ topic' = Released(p)

(* Mutant: the error return skips the release. *)
FailKeepingSlot(p) == pulls' = pulls \ {p} /\ UNCHANGED topic

(* A pull that ends before its last frame. *)
FailPull(p) == EndPull(p)

Snapshot(p) == [p EXCEPT !.stage = "first", !.group = group[p.from], !.rows = rows[p.from]]

(* handle_snapshot_server: the gate, then the holder's rows as they are now.   *)
(* Refused, or a group the holder does not have: the stream ends unwritten.    *)
handle_snapshot_server(p) ==
  /\ p.stage = "asked"
  /\ IF Presents(p.from, p.by, p.grant)
     THEN present_grant(p.from, p.by, p.grant)
     ELSE UNCHANGED <<authorized, spent>>
  /\ served' = IF Honours(p.from, p.by, p.grant)
               THEN served \cup {<<p.from, p.by, p.grant>>}
               ELSE served
  /\ IF authorize_snapshot(p.from, p.by, p.grant) /\ group[p.from] # None
     THEN pulls' = (pulls \ {p}) \cup {Snapshot(p)} /\ UNCHANGED topic
     ELSE FailPull(p)
  /\ UNCHANGED <<localVars, cmds, enforced, revoked, counters>>

(* The Structure frame: the group row if there is none, workspaces and boards. *)
ApplyStructure(p) ==
  /\ p.stage = "first"
  /\ group' = [group EXCEPT ![p.by] = IF @ = None THEN p.group ELSE @]
  /\ rows' = [rows EXCEPT ![p.by] = @ \cup (p.rows \cap {"boards"})]
  /\ pulls' = (pulls \ {p}) \cup {[p EXCEPT !.stage = "rest"]}
  /\ UNCHANGED <<topic, cmds, authVars, counters>>

(* The other frames; their rows need the boards. *)
ApplyContent(p) ==
  /\ p.stage = "rest"
  /\ rows' = [rows EXCEPT ![p.by] = IF "boards" \in @ THEN @ \cup p.rows ELSE @]
  /\ EndPull(p)
  /\ UNCHANGED <<group, cmds, authVars, counters>>

(* The stream breaks.  After the Structure frame the reader calls it a success. *)
BreakPull(p) ==
  /\ p.stage # "lost"
  /\ FailPull(p)
  /\ Fault
  /\ UNCHANGED <<localVars, cmds, authVars>>

(* The holder went away. *)
LosePull(p) ==
  /\ p.stage = "lost"
  /\ FailPull(p)
  /\ UNCHANGED <<localVars, cmds, authVars, counters>>

(* Groups in the database are subscribed again, without a grant; the authority *)
(* of a device lives in memory only.                                           *)
Restart(n) ==
  /\ topic' = [topic EXCEPT ![n] = IF group[n] = None THEN None ELSE NewTopic(None)]
  /\ cmds' = [cmds EXCEPT ![n] = <<>>]
  /\ pulls' = {IF p.from = n THEN [p EXCEPT !.stage = "lost"] ELSE p :
                 p \in {q \in pulls : q.by # n}}
  /\ enforced' = [enforced EXCEPT ![n] = FALSE]
  /\ spent' = [spent EXCEPT ![n] = {}]
  /\ authorized' = [authorized EXCEPT ![n] = [p \in Node |-> None]]
  /\ revoked' = [revoked EXCEPT ![n] = {}]
  /\ served' = {s \in served : s[1] # n}
  /\ Fault
  /\ UNCHANGED localVars

-------------------------------------------------------------------------------

User(n) ==
  \/ n \in Scanners /\ \E g \in Invites[n] : join_from_invite(n, g)
  \/ n \notin Scanners /\ \E g \in Invites[n] : join_group_grant(n, g)
  \/ n \in Leavers /\ Leave(n)
  \/ n \in Enforcers /\ (enforce_group(n) \/ \E g \in Grant : revoke(n, g))

NetworkActor(n) == JoinGroup(n) \/ SeedGroupPeer(n) \/ LeaveTopic(n)

Stream(p) ==
  handle_snapshot_server(p) \/ ApplyStructure(p) \/ ApplyContent(p) \/ LosePull(p)

PullsOf(n) == {p \in pulls : p.by = n}

Next ==
  \/ \E n \in Node : User(n) \/ NetworkActor(n) \/ Restart(n)
  \/ \E n \in Node : commit_snapshot_pick(n)
  \/ \E n, m \in Node : HearOffer(n, m) \/ handle_anti_entropy(n, m)
  \/ \E p \in pulls : Stream(p) \/ BreakPull(p)

Spec == Init /\ [][Next]_vars

(* A stream that is open goes on to its end, and of the founder's sweeps, which *)
(* never stop, one gets through to a device that they reach again and again.   *)
(* Requests, offers and the sweeps of others may all be lost.                  *)
Fairness ==
  \A n \in Node \ {Founder} : /\ WF_vars(\E p \in PullsOf(n) : Stream(p))
                              /\ SF_vars(handle_anti_entropy(n, Founder))

FairSpec == Spec /\ Fairness

-------------------------------------------------------------------------------

TypeOK ==
  /\ group \in [Node -> Node \cup {None}]
  /\ rows \in [Node -> SUBSET Part]
  /\ topic \in [Node -> Topic \cup {None}]
  /\ cmds \in [Node -> Seq(Command)]
  /\ pulls \subseteq Pull
  /\ enforced \in [Node -> BOOLEAN]
  /\ spent \in [Node -> SUBSET Grant]
  /\ authorized \in [Node -> [Node -> MaybeGrant]]
  /\ revoked \in [Node -> SUBSET Grant]
  /\ served \subseteq Node \X Node \X Grant
  /\ joins \in 0..MaxJoins /\ faults \in 0..MaxFaults

(* Single use (authorize_snapshot, note_grant_used): while a holder runs, a    *)
(* nonce it has honoured, or spent itself to join, lets in no second peer.     *)
OneReader == \A s, t \in served : s[1] = t[1] /\ s[3] = t[3] => s[2] = t[2]

(* A peer stands admitted only by a grant this holder has spent on it and that *)
(* has not been revoked here since, in whichever order the two came.           *)
AuthorizationsStand ==
  \A h, p \in Node :
    LET g == authorized[h][p] IN
      g # None => <<h, p, g>> \in served /\ g \in spent[h] \ revoked[h]

(* The repairs that n's topic actor runs; those of an actor that has left are  *)
(* nobody's.                                                                   *)
Repairs(n) == {p \in pulls : p.by = n /\ p.kind = "repair" /\ p.current}

(* A topic actor's repair slot is taken exactly while one repair of its own is *)
(* in flight: leaving, joining again and restarting under a running pull, and  *)
(* every way for it to end, neither keep the slot nor free another actor's.    *)
SlotHeld ==
  \A n \in Node : Subscribed(n) =>
    /\ topic[n].repairing <=> Repairs(n) # {}
    /\ \A p, q \in Repairs(n) : p = q

(* The founder would let n's topic actor read: no enforcement, or a grant that *)
(* is good and that nobody else has used there.                                *)
Entitled(n) ==
  /\ Subscribed(n)
  /\ enforced[Founder] => check_at(Founder, topic[n].grant)
  /\ \A m \in Node \ {n} : <<Founder, m, topic[n].grant>> \notin served

(* A device that joined gets the whole group, however many requests, offers and *)
(* pulls fail on the way: a nonce spent on a broken stream is honoured again,   *)
(* and the sweep repairs what the one join-time pull left out.                  *)
EntitledCatchesUp ==
  \A n \in Node \ {Founder} : Entitled(n) ~> (rows[n] = Part \/ ~Entitled(n))

===============================================================================
