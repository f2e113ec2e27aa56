-------------------------- MODULE TableDefinition --------------------------
(***************************************************************************)
(* The definition of a table on its way through the shell: CREATE TABLE and *)
(* ALTER TABLE turn a clause into a request (build_create_table and         *)
(* build_update_table of AwsDDBClient), DescribeTable turns the table back  *)
(* into a description, SHOW CREATE TABLE turns the description into a       *)
(* CREATE TABLE statement, and the grammar reads that statement again.      *)
(*                                                                          *)
(* A statement is modelled by its clauses.  A name in it keeps how it is    *)
(* written, quoted or bare, since a bare name that is a keyword of the      *)
(* lexer is no name to the grammar.  The service is external: it holds what *)
(* it was asked for, and chooses which optional parts of a description it   *)
(* fills in.                                                                *)
(***************************************************************************)
EXTENDS Integers, Sequences, SequencesExt

CONSTANTS Definitions,  \* the CREATE TABLE statements considered
          Changes,      \* the ALTER TABLE statements considered, but for
          Replicas,     \* ... ADD, UPDATE and DROP REPLICA
          Keywords,     \* the names that are keywords of the lexer
          None,         \* an optional field that is not set
          MaxAlters     \* bound: ALTER TABLE statements

ASSUME DefinitionAssumption == MaxAlters \in Nat /\ None \notin Keywords

-----------------------------------------------------------------------------
(***************************************************************************)
(* From the statement to the request.                                      *)
(***************************************************************************)

\* f applied to every element of a sequence.
Each(f(_), s) == [i \in DOMAIN s |-> f(s[i])]

\* A clause gives keys as groups of attributes with a role, in any order.
add_key_role(groups) ==
  LET Of(role) == FlattenSeq(Each(LAMBDA g : g.attrs,
                                  SelectSeq(groups, LAMBDA g : g.role = role)))
  IN  [hash |-> Of("HASH"), range |-> Of("RANGE")]

to_sdk_key_schema(ks) ==
     Each(LAMBDA a : [attr |-> a, role |-> "HASH"], ks.hash)
  \o Each(LAMBDA a : [attr |-> a, role |-> "RANGE"], ks.range)

to_sdk_projection(p) == [type |-> p.type, attrs |-> IF p.type = "INCLUDE" THEN p.attrs ELSE <<>>]

to_sdk_provisioned(billing) ==
  IF billing # None /\ billing.mode = "PROVISIONED"
  THEN [rcu |-> billing.rcu, wcu |-> billing.wcu] ELSE None

to_sdk_ondemand(billing) ==
  IF billing # None /\ billing.mode = "PAY_PER_REQUEST" THEN billing.od ELSE None

\* A key schema needs a HASH attribute; only a GSI may have several of a role,
\* and at most four.
is_single_key(ks) == Len(ks.hash) <= 1 /\ Len(ks.range) <= 1

gsi_key_ok(ks) == ks.hash # <<>> /\ Len(ks.hash) <= 4 /\ Len(ks.range) <= 4

validate_key_schemas(d) ==
  LET declared == {d.attributes[i].name : i \in DOMAIN d.attributes}
  IN  /\ d.keys.hash # <<>> /\ is_single_key(d.keys)
      /\ \A l \in ToSet(d.lsis) : l.keys.hash # <<>> /\ is_single_key(l.keys)
      /\ \A g \in ToSet(d.gsis) : gsi_key_ok(g.keys)
      /\ \A v \in ToSet(d.vsis) :
           /\ v.attr \notin declared
           /\ \A e \in ToSet(v.search) : e.attr \in declared
           /\ v.projection.type = "INCLUDE" => ToSet(v.projection.attrs) \subseteq declared

sdk_gsi(g) ==
  [name |-> g.name, keys |-> to_sdk_key_schema(g.keys),
   projection |-> to_sdk_projection(g.projection),
   provisioned |-> to_sdk_provisioned(g.billing), od |-> to_sdk_ondemand(g.billing),
   warm |-> g.warm]

sdk_lsi(l) ==
  [name |-> l.name, keys |-> to_sdk_key_schema(l.keys),
   projection |-> to_sdk_projection(l.projection)]

fill_vector_index(v) == [v EXCEPT !.projection = to_sdk_projection(v.projection)]

\* Without a billing clause a table is on demand.
apply_billing(billing) == IF billing = None THEN "PAY_PER_REQUEST" ELSE billing.mode

build_create_table(d) ==
  [attributes |-> d.attributes, keys |-> to_sdk_key_schema(d.keys),
   mode |-> apply_billing(d.billing),
   provisioned |-> to_sdk_provisioned(d.billing), od |-> to_sdk_ondemand(d.billing),
   warm |-> d.warm,
   gsis |-> Each(sdk_gsi, d.gsis), lsis |-> Each(sdk_lsi, d.lsis),
   vsis |-> Each(fill_vector_index, d.vsis),
   stream |-> d.stream, sse |-> d.sse, class |-> d.class,
   protection |-> d.protection, tags |-> d.tags, replicas |-> {}]

\* Setting a table on demand drops the index updates of the same statement.
alter_table_command(c) ==
  IF c.billing # None /\ c.billing.mode = "PAY_PER_REQUEST"
  THEN [c EXCEPT !.gsis = <<>>] ELSE c

validate_gsi_updates(c) ==
  \A u \in ToSet(c.gsis) : u.action = "create" => gsi_key_ok(u.gsi.keys)

to_sdk_gsi_update(u) ==
  CASE u.action = "create" -> [action |-> "create", gsi |-> sdk_gsi(u.gsi)]
    [] u.action = "update" -> [action |-> "update", name |-> u.name, warm |-> u.warm,
                               provisioned |-> to_sdk_provisioned(u.billing),
                               od |-> to_sdk_ondemand(u.billing)]
    [] u.action = "drop"   -> [action |-> "drop", name |-> u.name]

\* ADD and UPDATE REPLICA carry a table class, STANDARD when the clause gives
\* none; the overrides of the read capacity are sent when they are given.
to_sdk_replica_update(r) ==
  IF r.action = "drop" THEN [action |-> "drop", region |-> r.region]
  ELSE [action |-> r.action, region |-> r.region,
        class |-> IF r.class = None THEN "STANDARD" ELSE r.class,
        rcu |-> r.rcu, gsis |-> r.gsis]

replica_update(r) == IF r = None THEN None ELSE to_sdk_replica_update(r)

\* Faulty variant: a clause that is absent is sent with its default.
DefaultsSent(c) ==
  [mode |-> IF c.billing = None THEN None ELSE c.billing.mode,
   provisioned |-> to_sdk_provisioned(c.billing), od |-> to_sdk_ondemand(c.billing),
   warm |-> c.warm, sse |-> c.sse, stream |-> c.stream,
   class |-> IF c.class = None THEN "STANDARD" ELSE c.class,
   protection |-> c.protection, attributes |-> c.attributes,
   gsis |-> Each(to_sdk_gsi_update, c.gsis), vsis |-> c.vsis,
   replica |-> replica_update(c.replica)]

\* An UpdateTableIn no field of which is set.
NothingSet ==
  [billing |-> None, warm |-> None, sse |-> None, stream |-> None, class |-> None,
   protection |-> None, attributes |-> <<>>, gsis |-> <<>>, vsis |-> <<>>,
   replica |-> None]

\* Only the fields the clause gave are set.
build_update_table(c) ==
  [mode |-> IF c.billing = None THEN None ELSE c.billing.mode,
   provisioned |-> to_sdk_provisioned(c.billing), od |-> to_sdk_ondemand(c.billing),
   warm |-> c.warm, sse |-> c.sse, stream |-> c.stream, class |-> c.class,
   protection |-> c.protection, attributes |-> c.attributes,
   gsis |-> Each(to_sdk_gsi_update, c.gsis), vsis |-> c.vsis,
   replica |-> replica_update(c.replica)]

-----------------------------------------------------------------------------
(***************************************************************************)
(* The service: what it accepts and what a table is after a request.       *)
(***************************************************************************)

KeyNames(keys) == {keys[i].attr : i \in DOMAIN keys}

\* The attributes a table must declare: those of its keys and vector indexes.
InUse(t) ==
       KeyNames(t.keys)
  \union UNION {KeyNames(x.keys) : x \in ToSet(t.gsis) \union ToSet(t.lsis)}
  \union UNION {KeyNames(v.search) \union ToSet(v.projection.attrs) : v \in ToSet(t.vsis)}

HasHash(keys) == \E i \in DOMAIN keys : keys[i].role = "HASH"

\* Throughput comes with the billing mode it belongs to; exactly the attributes
\* in use are declared; every key has a HASH part; replicas need both images of
\* the stream, and override indexes the table has.
Legal(t) ==
  /\ {a.name : a \in ToSet(t.attributes)} = InUse(t)
  /\ (t.provisioned # None) = (t.mode = "PROVISIONED")
  /\ \A g \in ToSet(t.gsis) : (g.provisioned # None) = (t.mode = "PROVISIONED")
  /\ \A x \in ToSet(t.gsis) \union ToSet(t.lsis) : HasHash(x.keys)
  /\ \A x \in ToSet(t.vsis) : x.projection.type = "INCLUDE" => x.projection.attrs # <<>>
  /\ t.replicas # {} => t.stream = "NEW_AND_OLD_IMAGES"
  /\ \A x \in t.replicas : {g.name : g \in x.gsis} \subseteq {g.name : g \in ToSet(t.gsis)}

\* A stream that is disabled is none.
Stream(spec) == IF spec = "DISABLED" THEN None ELSE spec

Created(r) == [r EXCEPT !.stream = Stream(r.stream)]

Given(new, old) == IF new = None THEN old ELSE new

UpdatedGsis(gsis, onDemand, updates) ==
  LET Of(n) == SelectSeq(updates, LAMBDA u : u.action = "update" /\ u.name = n)
      Now(g) ==
        LET u == Of(g.name)
            h == IF onDemand THEN [g EXCEPT !.provisioned = None] ELSE g
        IN  IF u = <<>> THEN h
            ELSE [h EXCEPT !.provisioned = Given(u[1].provisioned, h.provisioned),
                           !.od = Given(u[1].od, h.od), !.warm = Given(u[1].warm, h.warm)]
      dropped == {u.name : u \in {w \in ToSet(updates) : w.action = "drop"}}
  IN  Each(Now, SelectSeq(gsis, LAMBDA g : g.name \notin dropped))
      \o Each(LAMBDA u : u.gsi, SelectSeq(updates, LAMBDA u : u.action = "create"))

UpdatedVsis(vsis, updates) ==
  LET dropped == {u.drop : u \in {w \in ToSet(updates) : w.drop # None}}
  IN  SelectSeq(vsis, LAMBDA v : v.name \notin dropped)
      \o Each(LAMBDA u : fill_vector_index(u.create),
              SelectSeq(updates, LAMBDA u : u.create # None))

\* A replica keeps what an update of it leaves out; a dropped index takes the
\* overrides of it along.
UpdatedReplicas(replicas, u, indexes) ==
  LET others == {x \in replicas : u = None \/ x.region # u.region}
      old == replicas \ others
      Kept(gsis) == {g \in gsis : g.name \in indexes}
      Over(gsis) == ToSet(u.gsis) \union {g \in gsis : \A h \in ToSet(u.gsis) : h.name # g.name}
      named ==
        CASE u = None -> {}
          [] u # None /\ u.action = "drop" -> {}
          [] u # None /\ u.action = "add" ->
               {[region |-> u.region, class |-> u.class, rcu |-> u.rcu, gsis |-> ToSet(u.gsis)]}
          [] u # None /\ u.action = "update" ->
               {[x EXCEPT !.class = u.class, !.rcu = Given(u.rcu, x.rcu),
                          !.gsis = Over(x.gsis)] : x \in old}
  IN  {[x EXCEPT !.gsis = Kept(x.gsis)] : x \in others} \union named

\* Adding a replica turns on the stream that replication reads.
StreamOf(r, old) ==
  IF r.replica # None /\ r.replica.action = "add" THEN "NEW_AND_OLD_IMAGES"
  ELSE Stream(Given(r.stream, old))

Updated(t, r) ==
  LET gsis == UpdatedGsis(t.gsis, r.mode = "PAY_PER_REQUEST", r.gsis)
      now == [t EXCEPT
        !.mode = Given(r.mode, t.mode),
        !.provisioned = IF r.mode = "PAY_PER_REQUEST" THEN None
                        ELSE Given(r.provisioned, t.provisioned),
        !.od = Given(r.od, t.od), !.warm = Given(r.warm, t.warm),
        !.sse = Given(r.sse, t.sse), !.stream = StreamOf(r, t.stream),
        !.class = Given(r.class, t.class), !.protection = Given(r.protection, t.protection),
        !.gsis = gsis, !.vsis = UpdatedVsis(t.vsis, r.vsis),
        !.replicas = UpdatedReplicas(t.replicas, r.replica, {g.name : g \in ToSet(gsis)})]
      added == SelectSeq(r.attributes, LAMBDA a : a \notin ToSet(t.attributes))
  IN  [now EXCEPT !.attributes =
         SelectSeq(t.attributes \o added, LAMBDA a : a.name \in InUse(now))]

-----------------------------------------------------------------------------
(***************************************************************************)
(* From the table to its description.                                      *)
(***************************************************************************)

\* What DescribeTable fills in beyond what it must: the billing mode of a
\* provisioned table, the class of a standard one, a stream that is disabled.
\* The provisioned throughput is always there.
Views(t) ==
  {view \in [mode: BOOLEAN, class: BOOLEAN, stream: BOOLEAN] :
     /\ t.mode = "PAY_PER_REQUEST" => view.mode
     /\ t.class # "STANDARD" => view.class
     /\ t.stream # None => view.stream}

load_key_schema(keys) ==
  LET Of(role) == Each(LAMBDA k : k.attr, SelectSeq(keys, LAMBDA k : k.role = role))
  IN  [hash |-> Of("HASH"), range |-> Of("RANGE")]

from_sdk_projection(p) == [type |-> p.type, attrs |-> IF p.type = "INCLUDE" THEN p.attrs ELSE <<>>]

\* A throughput that is not set reads as zero units.
Units(pt) == IF pt = None THEN [rcu |-> 0, wcu |-> 0] ELSE pt

load_gsi_detail(g) ==
  [name |-> g.name, keys |-> load_key_schema(g.keys),
   projection |-> from_sdk_projection(g.projection), units |-> Units(g.provisioned)]

load_vector_index_detail(v) == [v EXCEPT !.projection = from_sdk_projection(v.projection)]

\* Of a local index only the name and the key schema are loaded: its projection
\* is that of a default SecondaryIndexSchema.
load_lsi(l) ==
  [name |-> l.name, keys |-> load_key_schema(l.keys),
   projection |-> [type |-> "ALL", attrs |-> <<>>]]

describe_table(t, view) ==
  [attributes |-> t.attributes, keys |-> load_key_schema(t.keys),
   lsis |-> Each(load_lsi, t.lsis), gsis |-> Each(load_gsi_detail, t.gsis),
   vsis |-> Each(load_vector_index_detail, t.vsis),
   mode |-> IF view.mode THEN t.mode ELSE None, units |-> Units(t.provisioned),
   class |-> IF view.class THEN t.class ELSE None,
   stream_set |-> view.stream, stream |-> t.stream, protection |-> t.protection]

-----------------------------------------------------------------------------
(***************************************************************************)
(* From the description to a statement.                                    *)
(***************************************************************************)

Quoted(n) == [name |-> n, quoted |-> TRUE]
Bare(n) == [name |-> n, quoted |-> FALSE]

key_description(ks) ==
  SelectSeq(<<[attrs |-> Each(Quoted, ks.hash), role |-> "HASH"],
              [attrs |-> Each(Quoted, ks.range), role |-> "RANGE"]>>,
            LAMBDA g : g.attrs # <<>>)

\* The attributes of INCLUDE are the only names written bare.
projection_ddl(p) ==
  CASE p.type = "ALL"       -> [words |-> "ALL", attrs |-> <<>>]
    [] p.type = "KEYS_ONLY" -> [words |-> "KEYS ONLY", attrs |-> <<>>]
    [] p.type = "INCLUDE"   -> [words |-> "INCLUDE", attrs |-> Each(Bare, p.attrs)]

billing_mode_provisioned(units) == [words |-> "PROVISIONED", rcu |-> units.rcu, wcu |-> units.wcu]

billing_mode_on_demand == [words |-> "ON DEMAND", rcu |-> 0, wcu |-> 0]

\* Faulty variant: the indexes repeat no throughput of their own.
ShowGsisWithoutUnits(gsis, onDemand) ==
  Each(LAMBDA g : [name |-> Quoted(g.name), on |-> key_description(g.keys),
                   projection |-> projection_ddl(g.projection),
                   billing |-> billing_mode_on_demand], gsis)

show_gsis(gsis, onDemand) ==
  Each(LAMBDA g : [name |-> Quoted(g.name), on |-> key_description(g.keys),
                   projection |-> projection_ddl(g.projection),
                   billing |-> IF onDemand THEN billing_mode_on_demand
                               ELSE billing_mode_provisioned(g.units)], gsis)

show_lsis(lsis) ==
  Each(LAMBDA l : [name |-> Quoted(l.name), on |-> key_description(l.keys),
                   projection |-> projection_ddl(l.projection)], lsis)

show_vsis(vsis) ==
  Each(LAMBDA v : [name |-> Quoted(v.name), on |-> Quoted(v.attr),
                   dimensions |-> v.dimensions, distance |-> v.distance,
                   search |-> Each(LAMBDA e : [attr |-> Quoted(e.attr),
                                               role |-> IF e.role = "HASH" THEN "HASH" ELSE "FILTER"],
                                   v.search),
                   projection |-> projection_ddl(v.projection)], vsis)

stream_view_words(view) ==
  CASE view = "NEW_IMAGE" -> "NEW IMAGE"
    [] view = "OLD_IMAGE" -> "OLD IMAGE"
    [] view = "KEYS_ONLY" -> "KEYS ONLY"
    [] view = "NEW_AND_OLD_IMAGES" -> "BOTH IMAGES"

reconstruct_ddl(td) ==
  [attributes |-> Each(LAMBDA a : [name |-> Quoted(a.name), type |-> a.type], td.attributes),
   keys |-> key_description(td.keys),
   billing |-> IF td.mode = "PAY_PER_REQUEST" THEN billing_mode_on_demand
               ELSE billing_mode_provisioned(td.units),
   gsis |-> show_gsis(td.gsis, td.mode = "PAY_PER_REQUEST"),
   lsis |-> show_lsis(td.lsis), vsis |-> show_vsis(td.vsis),
   stream |-> IF ~td.stream_set THEN None
              ELSE IF td.stream = None THEN "DISABLED" ELSE stream_view_words(td.stream),
   class |-> IF td.class = "STANDARD_INFREQUENT_ACCESS" THEN "STANDARD INFREQUENT ACCESS"
             ELSE "STANDARD",
   protection |-> IF td.protection THEN "ENABLED" ELSE "DISABLED"]

-----------------------------------------------------------------------------
(***************************************************************************)
(* From the statement to a definition: the grammar.                        *)
(***************************************************************************)

\* A `string' of the grammar is a quoted name or a bare one that is no keyword.
is_string(token) == token.quoted \/ token.name \notin Keywords

GroupTokens(groups) == UNION {ToSet(groups[i].attrs) : i \in DOMAIN groups}

Tokens(ddl) ==
       {a.name : a \in ToSet(ddl.attributes)} \union GroupTokens(ddl.keys)
  \union UNION {{x.name} \union GroupTokens(x.on) \union ToSet(x.projection.attrs) :
                  x \in ToSet(ddl.gsis) \union ToSet(ddl.lsis)}
  \union UNION {{v.name, v.on} \union {e.attr : e \in ToSet(v.search)}
                  \union ToSet(v.projection.attrs) : v \in ToSet(ddl.vsis)}

key_schema(groups) ==
  add_key_role(Each(LAMBDA g : [attrs |-> Each(LAMBDA t : t.name, g.attrs), role |-> g.role],
                    groups))

index_projection(p) ==
  [type |-> CASE p.words = "ALL" -> "ALL"
              [] p.words = "KEYS ONLY" -> "KEYS_ONLY"
              [] p.words = "INCLUDE" -> "INCLUDE",
   attrs |-> Each(LAMBDA t : t.name, p.attrs)]

billing_mode_and_throughput(b) ==
  IF b.words = "PROVISIONED"
  THEN [mode |-> "PROVISIONED", rcu |-> b.rcu, wcu |-> b.wcu, od |-> None]
  ELSE [mode |-> "PAY_PER_REQUEST", rcu |-> 0, wcu |-> 0, od |-> None]

stream_specification(words) ==
  CASE words = "NEW IMAGE" -> "NEW_IMAGE"
    [] words = "OLD IMAGE" -> "OLD_IMAGE"
    [] words = "KEYS ONLY" -> "KEYS_ONLY"
    [] words = "BOTH IMAGES" -> "NEW_AND_OLD_IMAGES"
    [] OTHER -> words

vector_index(v) ==
  [name |-> v.name.name, attr |-> v.on.name, dimensions |-> v.dimensions,
   distance |-> v.distance,
   search |-> Each(LAMBDA e : [attr |-> e.attr.name,
                               role |-> IF e.role = "HASH" THEN "HASH" ELSE "INLINE_FILTER"],
                   v.search),
   projection |-> index_projection(v.projection)]

create_table_command(ddl) ==
  [attributes |-> Each(LAMBDA a : [name |-> a.name.name, type |-> a.type], ddl.attributes),
   keys |-> key_schema(ddl.keys), billing |-> billing_mode_and_throughput(ddl.billing),
   warm |-> None,
   gsis |-> Each(LAMBDA g : [name |-> g.name.name, keys |-> key_schema(g.on),
                             projection |-> index_projection(g.projection),
                             billing |-> billing_mode_and_throughput(g.billing),
                             warm |-> None], ddl.gsis),
   lsis |-> Each(LAMBDA l : [name |-> l.name.name, keys |-> key_schema(l.on),
                             projection |-> index_projection(l.projection)], ddl.lsis),
   vsis |-> Each(vector_index, ddl.vsis),
   stream |-> stream_specification(ddl.stream), sse |-> None,
   class |-> IF ddl.class = "STANDARD" THEN "STANDARD" ELSE "STANDARD_INFREQUENT_ACCESS",
   protection |-> ddl.protection = "ENABLED", tags |-> <<>>]

-----------------------------------------------------------------------------
(***************************************************************************)
(* A session: CREATE TABLE, any ALTER TABLEs, SHOW CREATE TABLE, and what   *)
(* it printed run as a statement against an empty region.                  *)
(***************************************************************************)

VARIABLES
  def,     \* the definition of the CREATE TABLE statement, fixed
  stage,   \* what the session has done
  table,   \* the table in the service, None before it is made
  status,  \* its status
  alters,  \* number of ALTER TABLE statements
  ddl,     \* what SHOW CREATE TABLE printed
  copy     \* the table that statement makes

definitionVars == <<def, stage, table, status, alters, ddl, copy>>

InitDefinition ==
  /\ def \in Definitions
  /\ stage = "start" /\ table = None /\ status = "ABSENT"
  /\ alters = 0 /\ ddl = None /\ copy = None

CreateTable ==
  /\ stage = "start"
  /\ LET made == Created(build_create_table(def))
     IN  CASE ~validate_key_schemas(def) -> stage' = "invalid" /\ UNCHANGED <<table, status>>
           [] validate_key_schemas(def) /\ ~Legal(made) ->
                stage' = "refused" /\ UNCHANGED <<table, status>>
           [] OTHER -> stage' = "made" /\ table' = made /\ status' = "ACTIVE"
  /\ UNCHANGED <<def, alters, ddl, copy>>

\* The indexes and the replica an UpdateTable names exist, the ones it creates
\* do not.
IndexNames(t) == {x.name : x \in ToSet(t.gsis) \union ToSet(t.lsis)} \union {v.name : v \in ToSet(t.vsis)}
Applicable(t, r) ==
  /\ \A u \in ToSet(r.gsis) : IF u.action = "create" THEN u.gsi.name \notin IndexNames(t)
                              ELSE u.name \in {g.name : g \in ToSet(t.gsis)}
  /\ \A u \in ToSet(r.vsis) : IF u.create # None THEN u.create.name \notin IndexNames(t)
                              ELSE u.drop \in {v.name : v \in ToSet(t.vsis)}
  /\ r.replica # None =>
       (r.replica.action = "add") = (r.replica.region \notin {x.region : x \in t.replicas})
  /\ Legal(Updated(t, r))

\* execute_alter_table, when it succeeds: a clause that is invalid and a request
\* that is refused change nothing.  The table takes a while to be ACTIVE again.
AlterTable(c) ==
  /\ stage = "made" /\ alters < MaxAlters
  /\ LET cmd == alter_table_command(c)
         request == build_update_table(cmd)
     IN  /\ validate_gsi_updates(cmd) /\ status = "ACTIVE" /\ Applicable(table, request)
         /\ table' = Updated(table, request)
  /\ status' = "UPDATING" /\ alters' = alters + 1
  /\ UNCHANGED <<def, stage, ddl, copy>>

\* execute_alter_replica, likewise: of the request only the replica is set.
AlterReplica(r) ==
  /\ stage = "made" /\ alters < MaxAlters
  /\ LET request == build_update_table([NothingSet EXCEPT !.replica = r])
     IN  /\ status = "ACTIVE" /\ Applicable(table, request)
         /\ table' = Updated(table, request)
  /\ status' = "UPDATING" /\ alters' = alters + 1
  /\ UNCHANGED <<def, stage, ddl, copy>>

Settle ==
  /\ status = "UPDATING" /\ status' = "ACTIVE"
  /\ UNCHANGED <<def, stage, table, alters, ddl, copy>>

\* execute_show_create_table refuses a table that is not ACTIVE.
ShowCreateTable ==
  /\ stage = "made" /\ status = "ACTIVE"
  /\ \E view \in Views(table) : ddl' = reconstruct_ddl(describe_table(table, view))
  /\ stage' = "shown"
  /\ UNCHANGED <<def, table, status, alters, copy>>

RunShown ==
  /\ stage = "shown"
  /\ IF \A token \in Tokens(ddl) : is_string(token)
     THEN LET d == create_table_command(ddl)
              made == Created(build_create_table(d))
          IN  IF validate_key_schemas(d) /\ Legal(made)
              THEN stage' = "copied" /\ copy' = made
              ELSE stage' = "copy refused" /\ UNCHANGED copy
     ELSE stage' = "syntax error" /\ UNCHANGED copy
  /\ UNCHANGED <<def, table, status, alters, ddl>>

NextDefinition ==
  \/ CreateTable \/ (\E c \in Changes : AlterTable(c))
  \/ (\E r \in Replicas : AlterReplica(r)) \/ Settle
  \/ ShowCreateTable \/ RunShown

DefinitionSpec == InitDefinition /\ [][NextDefinition]_definitionVars

-----------------------------------------------------------------------------
(***************************************************************************)
(* Properties.                                                             *)
(***************************************************************************)

\* What SHOW CREATE TABLE does not show: warm throughput, on-demand limits,
\* encryption, tags and replicas.
Shown(t) ==
  [t EXCEPT !.warm = None, !.od = None, !.sse = None, !.tags = <<>>, !.replicas = {},
            !.gsis = Each(LAMBDA g : [g EXCEPT !.warm = None, !.od = None], t.gsis)]

ButForLsiProjections(t) ==
  [t EXCEPT !.lsis = Each(LAMBDA l : [l EXCEPT !.projection = None], t.lsis)]

\* An index that includes an attribute named like a keyword.
KeywordIncluded(t) ==
  \E x \in ToSet(t.gsis) \union ToSet(t.vsis) : ToSet(x.projection.attrs) \intersect Keywords # {}

\* SHOW CREATE TABLE prints a statement that makes the table again, however it
\* was created and altered: it is valid, it is accepted, and the table it makes
\* is the same in all that is shown.  Two cases are left out, on which
\* ShownIsTheTable and VsisReparse fail: nothing is said of the projections of
\* local indexes, nor of a table with an INCLUDE of a name that is a keyword.
ShownRebuilds ==
  table # None /\ ~KeywordIncluded(table) =>
    /\ stage = "copied" => ButForLsiProjections(copy) = ButForLsiProjections(Shown(table))
    /\ stage \notin {"syntax error", "copy refused"}

\* SHOW CREATE TABLE generates `the CREATE TABLE command required to generate a
\* table' (README.md:1399): in all that it shows, the table its clauses ask for is
\* the table.  Of a local index describe_table loads no projection, so ALL is
\* shown.
ShownIsTheTable ==
  ddl # None => Created(build_create_table(create_table_command(ddl))) = Shown(table)

\* `The emitted DDL round-trips through the grammar's vector_index_list
\* production' (show_commands_executor.cpp:144): every name of a vector index
\* shown is a string of the grammar.  projection_ddl writes the names of INCLUDE
\* bare.
VsisReparse ==
  ddl # None =>
    \A token \in Tokens([ddl EXCEPT !.attributes = <<>>, !.keys = <<>>, !.gsis = <<>>,
                                    !.lsis = <<>>]) : is_string(token)

\* The two claims together.  The formula is weaker than either of them, so the
\* one table that breaks it refutes both.
AShowCreateClaimHolds == ShownIsTheTable \/ VsisReparse

\* The updates of indexes that a statement carries out: setting a table on
\* demand drops those beside it.
Carried(c) == IF c.billing # None /\ c.billing.mode = "PAY_PER_REQUEST" THEN <<>> ELSE c.gsis

WithName(xs, n) == {x \in ToSet(xs) : x.name = n}

\* The throughput that goes with a billing clause.
Provides(x, billing) ==
  IF billing.mode = "PROVISIONED" THEN x.provisioned = [rcu |-> billing.rcu, wcu |-> billing.wcu]
  ELSE x.provisioned = None /\ (billing.od # None => x.od = billing.od)

\* The index clauses: what is created is as it says, what is updated has what
\* the clause gives and keeps the rest, what is dropped is gone, and any other
\* index is untouched, but that on demand it has no throughput of its own.
GsisAreTheirClauses(c) ==
  LET Of(action) == {u \in ToSet(Carried(c)) : u.action = action}
      created == {u.gsi.name : u \in Of("create")}
      touched == {u.name : u \in Of("update") \union Of("drop")}
      Alike(g) == [g EXCEPT !.provisioned = IF table'.mode = "PAY_PER_REQUEST" THEN None ELSE @]
  IN  /\ \A u \in Of("create") : \E g \in WithName(table'.gsis, u.gsi.name) :
           /\ load_key_schema(g.keys) = u.gsi.keys
           /\ from_sdk_projection(g.projection) = u.gsi.projection
           /\ u.gsi.billing # None => Provides(g, u.gsi.billing)
           /\ g.warm = u.gsi.warm
      /\ \A u \in Of("update") :
           \E g \in WithName(table.gsis, u.name), h \in WithName(table'.gsis, u.name) :
             /\ h = [g EXCEPT !.provisioned = h.provisioned, !.od = h.od, !.warm = h.warm]
             /\ IF u.billing = None THEN h.provisioned = g.provisioned /\ h.od = g.od
                ELSE Provides(h, u.billing)
             /\ h.warm = (IF u.warm = None THEN g.warm ELSE u.warm)
      /\ \A u \in Of("drop") : WithName(table'.gsis, u.name) = {}
      /\ {g \in ToSet(table'.gsis) : g.name \notin created \union touched}
           = {Alike(g) : g \in {x \in ToSet(table.gsis) : x.name \notin touched}}

VsisAreTheirClauses(c) ==
  LET dropped == {u.drop : u \in ToSet(c.vsis)}
      created == {u.create : u \in ToSet(c.vsis)} \ {None}
  IN  ToSet(table'.vsis)
        = {v \in ToSet(table.vsis) : v.name \notin dropped} \union created

\* The replicas after ADD, UPDATE or DROP REPLICA.  Nothing is said here of the
\* class of a replica when UPDATE REPLICA gives none: the grammar and
\* to_sdk_replica_update make it STANDARD, although build_update_table is to `Set
\* ONLY the fields the ALTER clause provided' (aws_ddb_client.cpp:1228).
ReplicasAreTheirClause(r) ==
  LET Of(t) == {x \in t.replicas : x.region = r.region}
      Overridden(x) == /\ r.rcu # None => x.rcu = r.rcu
                       /\ ToSet(r.gsis) \subseteq x.gsis
                       /\ r.class # None => x.class = r.class
      names == {g.name : g \in ToSet(r.gsis)}
  IN  /\ table'.replicas \ Of(table') = table.replicas \ Of(table)
      /\ r.action = "drop" => Of(table') = {}
      /\ r.action = "add" => \E x \in Of(table') :
           /\ Overridden(x) /\ (r.rcu = None => x.rcu = None) /\ x.gsis = ToSet(r.gsis)
           /\ r.class = None => x.class = "STANDARD"
      /\ r.action = "update" => \E x \in Of(table), y \in Of(table') :
           /\ Overridden(y) /\ (r.rcu = None => y.rcu = x.rcu)
           /\ {g \in y.gsis : g.name \notin names} = {g \in x.gsis : g.name \notin names}

\* An ALTER TABLE changes what its clause names, as it says, and nothing else,
\* except that a table set on demand takes the throughput from its indexes and
\* drops the index updates of the same statement, that attributes follow the
\* keys that use them, that a replica brings its stream, that a dropped index
\* takes the replicas' overrides of it along, and what ReplicasAreTheirClause
\* leaves out.
AlterIsItsClause ==
  [][/\ \A c \in Changes : AlterTable(c) =>
          /\ table'.class = Given(c.class, table.class)
          /\ table'.protection = Given(c.protection, table.protection)
          /\ table'.stream = Stream(Given(c.stream, table.stream))
          /\ table'.sse = Given(c.sse, table.sse)
          /\ table'.warm = Given(c.warm, table.warm)
          /\ IF c.billing = None THEN /\ table'.mode = table.mode /\ table'.od = table.od
                                      /\ table'.provisioned = table.provisioned
             ELSE table'.mode = c.billing.mode /\ Provides(table', c.billing)
          /\ GsisAreTheirClauses(c) /\ VsisAreTheirClauses(c)
          /\ table'.keys = table.keys /\ table'.lsis = table.lsis /\ table'.tags = table.tags
          /\ {[x EXCEPT !.gsis = {}] : x \in table'.replicas}
               = {[x EXCEPT !.gsis = {}] : x \in table.replicas}
          /\ {a.name : a \in ToSet(table'.attributes)} = InUse(table')
     /\ \A r \in Replicas : AlterReplica(r) =>
          /\ ReplicasAreTheirClause(r)
          /\ table' = [table EXCEPT !.replicas = table'.replicas,
                         !.stream = IF r.action = "add" THEN table'.stream ELSE @]]_definitionVars
=============================================================================
