------------------------- MODULE WorkerProcessProofs -------------------------
(***************************************************************************)
(* Theorems about WorkerProcess: it behaves as its daemon does, and its    *)
(* messages arrive as they were sent, for any number of Workers.           *)
(***************************************************************************)
EXTENDS WorkerProcess, WorkerDaemonProofs, SequenceTheorems

(* Whatever frames arrive and whenever it is told to stop, a Worker's      *)
(* process behaves as the daemon does: the theorems above hold of it.      *)
THEOREM ProcessIsDaemon == WPSpec => WDSpec
<1>1. WPInit => WDInit
    BY DEF WPInit
<1>2. [WPNext]_wpVars => [WDNext]_wdVars
    <2> SUFFICES ASSUME [WPNext]_wpVars PROVE [WDNext]_wdVars
        OBVIOUS
    <2>1. CASE WPDone \/ UNCHANGED wpVars
        BY <2>1 DEF WPDone, WDDone, wpVars
    <2>2. ASSUME NEW w \in Workers, ProcessNext(w) PROVE [WDNext]_wdVars
        <3>1. CASE WriteJoin(w)
            BY <3>1 DEF WriteJoin, ExchangeNext, WDNext
        <3>2. CASE WriteHeartbeat(w)
            BY <3>2 DEF WriteHeartbeat
        <3>3. CASE ReadReply(w)
            <4>1. PICK frame : TakesReply(w, frame)
                BY <3>3, Zenon DEF ReadReply
            <4>2. ExchangeNext(w)
                BY <4>1 DEF TakesReply, ExchangeNext
            <4> QED BY <4>2 DEF WDNext
        <3>4. CASE SilentNext(w)
            BY <3>4 DEF SilentNext, WDNext
        <3> QED BY <2>2, <3>1, <3>2, <3>3, <3>4 DEF ProcessNext
    <2>3. ASSUME NEW w \in Workers, Cancel(w) PROVE [WDNext]_wdVars
        BY <2>3 DEF Cancel, CancelLost, OwnNext, WDNext
    <2> QED BY <2>1, <2>2, <2>3 DEF WPNext
<1> QED BY <1>1, <1>2, PTL DEF WPSpec, WDSpec

-----------------------------------------------------------------------------
\* A schema: what each of its paths takes.
FieldTypes == [kind : DOMAIN OfKind, optional : BOOLEAN]
IsPath(p) == \E S : p \in Seq(S)
IsSchema(schema) == \A p \in DOMAIN schema : IsPath(p) /\ schema[p] \in FieldTypes

(* A path of one name.                                                     *)
LEMMA PathOfOne ==
    ASSUME NEW S, NEW name \in S
    PROVE  <<name>> \in Seq(S) /\ Len(<<name>>) = 1
OBVIOUS

(* The path of a field of a nested model, without the model's name.        *)
LEMMA TailOfPath ==
    ASSUME NEW name, NEW q, IsPath(q)
    PROVE  IsPath(<<name>> \o q) /\ Tail(<<name>> \o q) = q
<1>1. PICK S : q \in Seq(S)
    BY DEF IsPath
<1> DEFINE T == S \cup {name}
<1>2. PICK s \in Seq(T) : s = <<name>> /\ Len(s) = 1
    BY PathOfOne
<1> HIDE DEF T
<1>3. q \in Seq(T)
    <2>1. S \subseteq T
        BY DEF T
    <2> QED BY <1>1, <2>1
<1>4. s \o q \in Seq(T) /\ Len(s \o q) = Len(q) + 1
    BY <1>2, <1>3, ConcatProperties
<1>5. ASSUME NEW i \in 1..Len(q) PROVE (s \o q)[i + 1] = q[i]
    <2>1. i + 1 \in 1..(Len(s) + Len(q)) /\ ~(i + 1 <= Len(s)) /\ (i + 1) - Len(s) = i
        BY <1>2, <1>3
    <2>2. (s \o q)[i + 1] = q[(i + 1) - Len(s)]
        BY <1>3, <2>1, ConcatProperties
    <2> QED BY <2>1, <2>2
<1>6. s \o q # <<>>
    BY <1>3, <1>4
<1>7. /\ Tail(s \o q) \in Seq(T) /\ Len(Tail(s \o q)) = Len(q)
      /\ \A i \in 1..Len(q) : Tail(s \o q)[i] = q[i]
    BY <1>3, <1>4, <1>5, <1>6
<1>8. Tail(s \o q) = q
    BY <1>3, <1>7, SeqEqual
<1> QED BY <1>2, <1>4, <1>8 DEF IsPath

(* Fields of one kind.                                                     *)
LEMMA TakesSchema ==
    ASSUME NEW kind \in DOMAIN OfKind, NEW optional \in BOOLEAN, NEW names
    PROVE  IsSchema(Takes(kind, optional, names))
<1> DEFINE s == Takes(kind, optional, names)
<1>1. ASSUME NEW p \in DOMAIN s PROVE IsPath(p) /\ s[p] \in FieldTypes
    <2>1. PICK n \in names : p = <<n>>
        BY DEF Takes
    <2>2. IsPath(p)
        BY <2>1, PathOfOne DEF IsPath
    <2>3. s[p] = [kind |-> kind, optional |-> optional]
        BY DEF Takes
    <2> HIDE DEF s
    <2> QED BY <2>2, <2>3 DEF FieldTypes
<1> QED BY <1>1 DEF IsSchema

(* A model whose parts are schemas.                                        *)
LEMMA ModelSchema ==
    ASSUME NEW parts, \A s \in parts : IsSchema(s)
    PROVE  IsSchema(Model(parts))
<1>1. ASSUME NEW p \in DOMAIN Model(parts)
      PROVE  IsPath(p) /\ Model(parts)[p] \in FieldTypes
    <2>1. \E s \in parts : p \in DOMAIN s
        BY DEF Model
    <2> DEFINE c == CHOOSE s \in parts : p \in DOMAIN s
    <2>2. c \in parts /\ p \in DOMAIN c
        BY <2>1
    <2>3. Model(parts)[p] = c[p]
        BY DEF Model
    <2> HIDE DEF c
    <2> QED BY <2>2, <2>3 DEF IsSchema
<1> QED BY <1>1 DEF IsSchema

(* A nested model.                                                         *)
LEMMA NestedSchema ==
    ASSUME NEW name, NEW schema, IsSchema(schema)
    PROVE  IsSchema(Nested(name, schema))
<1>1. ASSUME NEW p \in DOMAIN Nested(name, schema)
      PROVE  IsPath(p) /\ Nested(name, schema)[p] \in FieldTypes
    <2>1. PICK q \in DOMAIN schema : p = <<name>> \o q
        BY DEF Nested
    <2>2. IsPath(q) /\ schema[q] \in FieldTypes
        BY DEF IsSchema
    <2>3. IsPath(p) /\ Tail(p) = q
        BY <2>1, <2>2, TailOfPath
    <2>4. Nested(name, schema)[p] = schema[Tail(p)]
        BY DEF Nested
    <2> QED BY <2>2, <2>3, <2>4
<1> QED BY <1>1 DEF IsSchema

(* Every message of both unions has a schema, nested models included.      *)
LEMMA Schemas ==
    /\ \A tag \in DOMAIN WorkerMessage : IsSchema(WorkerMessage[tag])
    /\ \A tag \in DOMAIN MasterMessage : IsSchema(MasterMessage[tag])
<1>1. \A kind \in DOMAIN OfKind : \A names :
         IsSchema(Required(kind, names)) /\ IsSchema(OrNone(kind, names))
    BY TakesSchema DEF Required, OrNone
<1>2. DOMAIN OfKind = {"str", "word", "int", "float", "bool", "object", "list"}
    BY DEF OfKind
<1>3. \A parts : (\A s \in parts : IsSchema(s)) => IsSchema(Model(parts))
    BY ModelSchema
<1>4. \A name, s : IsSchema(s) => IsSchema(Nested(name, s))
    BY NestedSchema
<1>5. IsSchema(GpuInfo)
    BY <1>1, <1>2, <1>3 DEF GpuInfo
<1>6. IsSchema(CapabilityProfile)
    BY <1>1, <1>2, <1>3, <1>4, <1>5 DEF CapabilityProfile
<1>7. IsSchema(TaskRequires)
    BY <1>1, <1>2, <1>3 DEF TaskRequires
<1>8. \A tag \in DOMAIN WorkerMessage : IsSchema(WorkerMessage[tag])
    <2>1. IsSchema(WorkerMessage.join) /\ IsSchema(WorkerMessage.profile_update)
        BY <1>1, <1>2, <1>3, <1>4, <1>6 DEF WorkerMessage
    <2>2. IsSchema(WorkerMessage.heartbeat)
        BY <1>1, <1>2, <1>3 DEF WorkerMessage
    <2>3. IsSchema(WorkerMessage.task_progress) /\ IsSchema(WorkerMessage.task_result)
        BY <1>1, <1>2, <1>3 DEF WorkerMessage
    <2> QED BY <2>1, <2>2, <2>3 DEF WorkerMessage
<1>9. \A tag \in DOMAIN MasterMessage : IsSchema(MasterMessage[tag])
    <2>1. IsSchema(MasterMessage.task_assign)
        BY <1>1, <1>2, <1>3, <1>4, <1>7 DEF MasterMessage
    <2>2. /\ IsSchema(MasterMessage.join_ack) /\ IsSchema(MasterMessage.join_reject)
          /\ IsSchema(MasterMessage.task_cancel) /\ IsSchema(MasterMessage.bandwidth_probe)
        BY <1>1, <1>2 DEF MasterMessage
    <2> QED BY <2>1, <2>2 DEF MasterMessage
<1> QED BY <1>8, <1>9

-----------------------------------------------------------------------------
(* No frame is a message in both directions, whatever it is.               *)
THEOREM DirectionsTheorem == WPSpec => []DirectionsDisjoint
<1>1. ASSUME NEW frame
      PROVE  parse_worker_message(frame) = Invalid \/ parse_master_message(frame) = Invalid
    <2>1. DOMAIN WorkerMessage
            = {"join", "heartbeat", "task_progress", "task_result", "profile_update"}
        BY DEF WorkerMessage
    <2>2. DOMAIN MasterMessage
            = {"join_ack", "join_reject", "task_assign", "task_cancel", "bandwidth_probe"}
        BY DEF MasterMessage
    <2> QED BY <2>1, <2>2 DEF parse_worker_message, parse_master_message, Parse
<1>2. DirectionsDisjoint
    BY <1>1 DEF DirectionsDisjoint
<1> QED BY <1>2, PTL

-----------------------------------------------------------------------------
\* A message that a peer could build: each field of its schema holds a value
\* that pydantic takes there.
IsMessage(union, m) ==
    /\ m.type \in DOMAIN union
    /\ m = [type |-> m.type, body |-> m.body]
    /\ m.body = [p \in DOMAIN union[m.type] |-> m.body[p]]
    /\ \A p \in DOMAIN union[m.type] : m.body[p] \in Values(union[m.type][p])

\* A body that says what another does, or leaves out what that has no value for.
Carries(body, sent) ==
    \A p \in DOMAIN sent :
        IF p \in DOMAIN body THEN body[p] = Dumped(sent[p]) ELSE Dumped(sent[p]) = "null"

(* A field of a message, dumped, is what its reader accepts, unless it is  *)
(* NaN or infinite in a required field; and it is read as it was written.  *)
LEMMA FieldTravels ==
    ASSUME NEW field \in FieldTypes, NEW v \in Values(field)
    PROVE  /\ Dumped(v) = IF v = "nonfinite" THEN "null" ELSE v
           /\ Dumped(v) \in Accepts(field) <=> (v = "nonfinite" => field.optional)
           /\ Dumped(v) = "null" => (field.optional <=> (v = "nonfinite" => field.optional))
           /\ Coerced(field.kind, Dumped(v)) = Dumped(v)
<1>1. field.kind \in {"str", "word", "int", "float", "bool", "object", "list"}
        /\ field.optional \in BOOLEAN
    BY DEF FieldTypes, OfKind
<1>2. v \in {"text", "word", "whole", "fraction", "true", "object", "array", "null", "nonfinite"}
    BY <1>1 DEF Values, Plain
<1> QED BY <1>1, <1>2 DEF Dumped, Accepts, Values, Plain, OfKind, Coerced

(* A body of any version fits the schema unless a required float does not  *)
(* travel, and reads as it was sent.                                       *)
LEMMA BodyTravels ==
    ASSUME NEW schema, IsSchema(schema), NEW sent, DOMAIN sent = DOMAIN schema,
           \A p \in DOMAIN schema : sent[p] \in Values(schema[p]),
           NEW body, Carries(body, sent)
    PROVE  /\ Fits(schema, body) <=>
                \A p \in DOMAIN schema : sent[p] = "nonfinite" => schema[p].optional
           /\ Read(schema, body) = [p \in DOMAIN schema |-> Dumped(sent[p])]
<1>1. ASSUME NEW p \in DOMAIN schema
      PROVE  /\ (IF p \in DOMAIN body THEN body[p] \in Accepts(schema[p]) ELSE schema[p].optional)
                    <=> (sent[p] = "nonfinite" => schema[p].optional)
             /\ (IF p \in DOMAIN body THEN Coerced(schema[p].kind, body[p]) ELSE "null")
                    = Dumped(sent[p])
    <2>1. schema[p] \in FieldTypes /\ sent[p] \in Values(schema[p])
        BY DEF IsSchema
    <2>2. IF p \in DOMAIN body THEN body[p] = Dumped(sent[p]) ELSE Dumped(sent[p]) = "null"
        BY DEF Carries
    <2>3. CASE p \in DOMAIN body
        BY <2>1, <2>2, <2>3, FieldTravels
    <2>4. CASE p \notin DOMAIN body
        BY <2>1, <2>2, <2>4, FieldTravels
    <2> QED BY <2>3, <2>4
<1> QED BY <1>1 DEF Fits, Read

(* Every version of a message carries it.                                  *)
LEMMA VersionsCarry ==
    ASSUME NEW m, NEW frame \in Versions(m)
    PROVE  frame.type = m.type /\ Carries(frame.body, m.body)
<1> DEFINE plain == model_dump_json(m)
<1>1. /\ plain = [type |-> m.type, body |-> [p \in DOMAIN m.body |-> Dumped(m.body[p])]]
      /\ plain.type = m.type /\ DOMAIN plain.body = DOMAIN m.body
      /\ \A p \in DOMAIN m.body : plain.body[p] = Dumped(m.body[p])
    BY DEF model_dump_json
<1> HIDE DEF plain
<1>2. CASE frame = plain
    BY <1>1, <1>2 DEF Carries
<1>3. CASE frame = [plain EXCEPT !.body = [p \in DOMAIN @ \cup {<<"added later">>} |->
                                            IF p \in DOMAIN @ THEN @[p] ELSE "text"]]
    <2>1. /\ frame.type = plain.type
          /\ frame.body = [p \in DOMAIN plain.body \cup {<<"added later">>} |->
                             IF p \in DOMAIN plain.body THEN plain.body[p] ELSE "text"]
        BY <1>1, <1>3
    <2> QED BY <1>1, <2>1 DEF Carries
<1>4. CASE frame = [plain EXCEPT !.body = [p \in {q \in DOMAIN @ : @[q] # "null"} |-> @[p]]]
    <2>1. /\ frame.type = plain.type
          /\ frame.body = [p \in {q \in DOMAIN plain.body : plain.body[q] # "null"} |->
                             plain.body[p]]
        BY <1>1, <1>4
    <2> QED BY <1>1, <2>1 DEF Carries
<1> QED BY <1>2, <1>3, <1>4 DEF Versions, plain

(* A message in a union is read as it was sent, whichever version wrote it.*)
LEMMA MessageTravels ==
    ASSUME NEW union, \A tag \in DOMAIN union : IsSchema(union[tag]),
           NEW m, IsMessage(union, m), NEW frame \in Versions(m)
    PROVE  Reads(union, m, frame)
<1> DEFINE schema == union[m.type]
<1>1. IsSchema(schema) /\ DOMAIN m.body = DOMAIN schema
        /\ \A p \in DOMAIN schema : m.body[p] \in Values(schema[p])
    BY DEF IsMessage
<1>2. frame.type = m.type /\ Carries(frame.body, m.body)
    BY VersionsCarry
<1>3. /\ Fits(schema, frame.body) <=>
            \A p \in DOMAIN schema : m.body[p] = "nonfinite" => schema[p].optional
      /\ Read(schema, frame.body) = [p \in DOMAIN schema |-> Dumped(m.body[p])]
    <2> HIDE DEF schema
    <2> QED BY <1>1, <1>2, BodyTravels
<1>4. Fits(schema, frame.body) <=> ~\E p \in NonFinite(m) : ~union[m.type][p].optional
    BY <1>1, <1>3 DEF NonFinite
<1>5. [m EXCEPT !.body = [p \in DOMAIN @ |-> IF p \in NonFinite(m) THEN "null" ELSE @[p]]]
        = [type |-> m.type, body |-> [p \in DOMAIN schema |-> Dumped(m.body[p])]]
    <2>1. [p \in DOMAIN m.body |-> IF p \in NonFinite(m) THEN "null" ELSE m.body[p]]
            = [p \in DOMAIN schema |-> Dumped(m.body[p])]
        BY <1>1 DEF NonFinite, Dumped
    <2>2. m = [type |-> m.type, body |-> m.body]
        BY DEF IsMessage
    <2> QED BY <2>1, <2>2
<1>6. Parse(union, frame) = IF Fits(schema, frame.body)
                            THEN [type |-> m.type, body |-> Read(schema, frame.body)] ELSE Invalid
    BY <1>2 DEF Parse, IsMessage
<1> QED BY <1>3, <1>4, <1>5, <1>6 DEF Reads

-----------------------------------------------------------------------------
(* The plain message of a tag is one.                                      *)
LEMMA PlainIsMessage ==
    ASSUME NEW union, \A tag \in DOMAIN union : IsSchema(union[tag]), NEW tag \in DOMAIN union
    PROVE  IsMessage(union, PlainMessage(union, tag))
BY DEF IsMessage, PlainMessage, Values

(* A message with another value in one field is one, if the field takes it.*)
LEMMA ChangedIsMessage ==
    ASSUME NEW union, NEW m, IsMessage(union, m), NEW p, NEW v,
           p \in DOMAIN union[m.type] => v \in Values(union[m.type][p])
    PROVE  IsMessage(union, [m EXCEPT !.body[p] = v]) /\ [m EXCEPT !.body[p] = v].type = m.type
<1> DEFINE body == [m.body EXCEPT ![p] = v]
           n == [type |-> m.type, body |-> body]
<1>1. m = [type |-> m.type, body |-> m.body] /\ m.type \in DOMAIN union
      /\ m.body = [q \in DOMAIN union[m.type] |-> m.body[q]]
      /\ \A q \in DOMAIN union[m.type] : m.body[q] \in Values(union[m.type][q])
    BY DEF IsMessage
<1>2. [m EXCEPT !.body[p] = v] = n
    BY <1>1
<1>3. DOMAIN body = DOMAIN union[m.type]
      /\ \A q \in DOMAIN union[m.type] : body[q] = IF q = p THEN v ELSE m.body[q]
    BY <1>1
<1>4. body = [q \in DOMAIN union[m.type] |-> body[q]]
    BY <1>3
<1> HIDE DEF body
<1>5. IsMessage(union, n)
    BY <1>1, <1>3, <1>4 DEF IsMessage
<1> QED BY <1>2, <1>5

(* All the messages of a tag.                                              *)
LEMMA MessagesAre ==
    ASSUME NEW union, \A tag \in DOMAIN union : IsSchema(union[tag]), NEW tag \in DOMAIN union,
           NEW m \in Messages(union, tag)
    PROVE  IsMessage(union, m)
<1> DEFINE plain == PlainMessage(union, tag)
<1>1. IsMessage(union, plain)
    BY PlainIsMessage
<1>2. plain.type = tag /\ DOMAIN plain.body = DOMAIN union[tag]
    BY DEF PlainMessage
<1> HIDE DEF plain
<1>3. CASE m = plain
    BY <1>1, <1>3
<1>4. ASSUME NEW p \in DOMAIN plain.body, NEW v \in Values(union[tag][p]),
             m = [plain EXCEPT !.body[p] = v]
      PROVE  IsMessage(union, m)
    BY <1>1, <1>2, <1>4, ChangedIsMessage
<1> QED BY <1>3, <1>4 DEF Messages, plain

\* What the loop of a daemon writes.
Beat ==
    [PlainMessage(WorkerMessage, "heartbeat") EXCEPT
        !.body[<<"task_id">>] = "null", !.body[<<"throughput_sample">>] = "null"]

(* The two fields it leaves None are optional.                             *)
LEMMA BeatIsMessage == IsMessage(WorkerMessage, Beat)
<1> DEFINE schema == WorkerMessage.heartbeat
           all == PlainMessage(WorkerMessage, "heartbeat")
           one == [all EXCEPT !.body[<<"task_id">>] = "null"]
           id == Required("str", {"worker_id"})
           task == OrNone("str", {"task_id"})
           sample == OrNone("float", {"throughput_sample"})
<1>1. "heartbeat" \in DOMAIN WorkerMessage /\ schema = Model({id, task, sample})
    BY DEF WorkerMessage
<1>2. /\ DOMAIN id = {<<"worker_id">>} /\ DOMAIN task = {<<"task_id">>}
      /\ DOMAIN sample = {<<"throughput_sample">>}
      /\ task[<<"task_id">>].optional /\ sample[<<"throughput_sample">>].optional
    BY DEF Required, OrNone, Takes
<1> HIDE DEF id, task, sample
<1>3. ASSUME NEW p, NEW s \in {id, task, sample}, p \in DOMAIN s,
             \A r \in {id, task, sample} : p \in DOMAIN r => r = s
      PROVE  Model({id, task, sample})[p] = s[p]
    BY <1>3 DEF Model
<1>4. /\ <<"task_id">> # <<"worker_id">> /\ <<"task_id">> # <<"throughput_sample">>
      /\ <<"throughput_sample">> # <<"worker_id">>
    OBVIOUS
<1>5. schema[<<"task_id">>].optional
    BY <1>1, <1>2, <1>3, <1>4
<1>6. schema[<<"throughput_sample">>].optional
    BY <1>1, <1>2, <1>3, <1>4
<1>7. IsMessage(WorkerMessage, all) /\ all.type = "heartbeat"
    BY <1>1, Schemas, PlainIsMessage DEF PlainMessage
<1> HIDE DEF schema, all
<1>8. "null" \in Values(schema[<<"task_id">>]) /\ "null" \in Values(schema[<<"throughput_sample">>])
    BY <1>5, <1>6 DEF Values
<1>9. IsMessage(WorkerMessage, one) /\ one.type = "heartbeat"
    BY <1>7, <1>8, ChangedIsMessage DEF schema
<1>10. Beat = [one EXCEPT !.body[<<"throughput_sample">>] = "null"]
    BY DEF Beat, all
<1> HIDE DEF one
<1> QED BY <1>8, <1>9, <1>10, ChangedIsMessage DEF schema

-----------------------------------------------------------------------------
\* What was last written to a connection is a message in its writer's union, and
\* what arrives is one of its versions.
Delivery(x) ==
    /\ x.by \in {"nobody", "Worker", "Master", "stranger"}
    /\ x.by = "Worker" => IsMessage(WorkerMessage, x.sent) /\ x.frame \in Versions(x.sent)
    /\ x.by = "Master" => IsMessage(MasterMessage, x.sent) /\ x.frame \in Versions(x.sent)
WireInv ==
    /\ told \subseteq Workers
    /\ DOMAIN onWire = Workers
    /\ \A w \in Workers : Delivery(onWire[w])

(* A write that is a delivery keeps them all deliveries.                   *)
LEMMA WrittenDelivery ==
    ASSUME WireInv, NEW w \in Workers, NEW by, NEW m, NEW frame, Written(w, by, m, frame),
           by \in {"Worker", "Master", "stranger"},
           by = "Worker" => IsMessage(WorkerMessage, m) /\ frame \in Versions(m),
           by = "Master" => IsMessage(MasterMessage, m) /\ frame \in Versions(m),
           told' = told
    PROVE  WireInv'
<1> DEFINE x == [by |-> by, sent |-> m, frame |-> frame]
<1>1. Delivery(x)
    BY DEF Delivery
<1>2. onWire' = [onWire EXCEPT ![w] = x]
    BY DEF Written
<1> HIDE DEF x
<1> QED BY <1>1, <1>2 DEF WireInv

(* Every step writes such messages, or none.                               *)
LEMMA WireInvStep == WireInv /\ [WPNext]_wpVars => WireInv'
<1> SUFFICES ASSUME WireInv, [WPNext]_wpVars PROVE WireInv'
    OBVIOUS
<1>1. CASE WPDone \/ UNCHANGED wpVars
    BY <1>1 DEF WPDone, wpVars, WireInv
<1>2. ASSUME NEW w \in Workers, ProcessNext(w) PROVE WireInv'
    <2>1. told' = told
        BY <1>2 DEF ProcessNext
    <2>2. CASE WriteJoin(w)
        <3>1. PICK join \in Messages(WorkerMessage, "join") :
                \E frame \in Versions(join) : Written(w, "Worker", join, frame)
            BY <2>2, Zenon DEF WriteJoin
        <3>2. PICK frame \in Versions(join) : Written(w, "Worker", join, frame)
            BY <3>1
        <3>3. "join" \in DOMAIN WorkerMessage
            BY DEF WorkerMessage
        <3>4. IsMessage(WorkerMessage, join)
            BY <3>3, Schemas, MessagesAre
        <3> QED BY <2>1, <3>2, <3>4, WrittenDelivery
    <2>3. CASE WriteHeartbeat(w)
        <3>1. PICK frame \in Versions(Beat) : Written(w, "Worker", Beat, frame)
            BY <2>3 DEF WriteHeartbeat, Beat
        <3> QED BY <2>1, <3>1, BeatIsMessage, WrittenDelivery
    <2>4. CASE ReadReply(w)
        <3>1. CASE \E tag \in DOMAIN MasterMessage : \E m \in Messages(MasterMessage, tag) :
                      \E frame \in Versions(m) : Written(w, "Master", m, frame)
            <4>0. PICK tag \in DOMAIN MasterMessage : \E m \in Messages(MasterMessage, tag) :
                      \E frame \in Versions(m) : Written(w, "Master", m, frame)
                BY <3>1
            <4>1. PICK m \in Messages(MasterMessage, tag) :
                      \E frame \in Versions(m) : Written(w, "Master", m, frame)
                BY <4>0
            <4>2. PICK frame \in Versions(m) : Written(w, "Master", m, frame)
                BY <4>1
            <4>3. IsMessage(MasterMessage, m)
                BY Schemas, MessagesAre
            <4> QED BY <2>1, <4>2, <4>3, WrittenDelivery
        <3>2. CASE \E frame \in Frames : Written(w, "stranger", Unknown, frame)
            BY <2>1, <3>2, WrittenDelivery
        <3> QED BY <2>4, <3>1, <3>2, Zenon DEF ReadReply
    <2>5. CASE SilentNext(w)
        BY <2>1, <2>5 DEF SilentNext, WireInv
    <2> QED BY <1>2, <2>2, <2>3, <2>4, <2>5 DEF ProcessNext
<1>3. ASSUME NEW w \in Workers, Cancel(w) PROVE WireInv'
    BY <1>3 DEF Cancel, WireInv
<1> QED BY <1>1, <1>2, <1>3 DEF WPNext

(* The invariant of what travels.                                          *)
THEOREM WireInvariant == WPSpec => []WireInv
<1>1. WPInit => WireInv
    BY DEF WPInit, WireInv, Delivery, Quiet
<1> QED BY <1>1, WireInvStep, PTL DEF WPSpec

(* The process' state has its types.                                       *)
THEOREM ProcessTypes == WPSpec => []WPTypeOK
<1>1. WireInv /\ WDTypeOK => WPTypeOK
    BY DEF WireInv, Delivery, WPTypeOK
<1> QED BY <1>1, WireInvariant, ProcessIsDaemon, DaemonTypes, PTL

(* Whatever either end sends, in whichever version, the other end reads as *)
(* it was sent; a NaN or an infinity arrives as None, or loses the message *)
(* where the field is required.                                            *)
THEOREM ReadsTheorem == WPSpec => []ReadsAsSent
<1>1. ASSUME WireInv PROVE ReadsAsSent
    <2>1. ASSUME NEW w \in Workers, onWire[w].by = "Worker"
          PROVE  Reads(WorkerMessage, onWire[w].sent, onWire[w].frame)
        BY <1>1, <2>1, Schemas, MessageTravels DEF WireInv, Delivery
    <2>2. ASSUME NEW w \in Workers, onWire[w].by = "Master"
          PROVE  Reads(MasterMessage, onWire[w].sent, onWire[w].frame)
        BY <1>1, <2>2, Schemas, MessageTravels DEF WireInv, Delivery
    <2> QED BY <2>1, <2>2 DEF ReadsAsSent
<1> QED BY <1>1, WireInvariant, PTL
====
