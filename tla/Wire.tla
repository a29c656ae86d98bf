-------------------------------- MODULE Wire --------------------------------
(***************************************************************************)
(* The control channel's messages and how they are written and read:       *)
(* proto/messages.py with the models of types.py that travel in them, as   *)
(* pydantic dumps and validates them.                                      *)
(*                                                                         *)
(* A model is its schema: a function from the paths of its fields, through *)
(* nested models, to what the field takes.  Values are classes of values:  *)
(* text that is no numeral, one of the words a Literal lists, a whole      *)
(* number above 1, a fractional one, true, an object, an array, null, and, *)
(* in a message that is not yet dumped, a float that is NaN or infinite.   *)
(***************************************************************************)
EXTENDS Sequences

Takes(kind, optional, names) ==
    [p \in {<<n>> : n \in names} |-> [kind |-> kind, optional |-> optional]]
Required(kind, names) == Takes(kind, FALSE, names)
OrNone(kind, names) == Takes(kind, TRUE, names)
Nested(name, schema) ==
    [p \in {<<name>> \o q : q \in DOMAIN schema} |-> schema[Tail(p)]]

\* A model with the fields of all its parts.
Model(parts) ==
    [p \in UNION {DOMAIN s : s \in parts} |-> (CHOOSE s \in parts : p \in DOMAIN s)[p]]

\* types.py
GpuInfo ==
    Model({Required("str", {"model"}), Required("int", {"vram_total_mb", "vram_free_mb"})})
CapabilityProfile ==
    Model({Required("str", {"host_id"}),
           Nested("gpu", GpuInfo),
           Required("int", {"cpu_cores", "ram_mb", "disk_free_mb"}),
           Required("list", {"datasets_cached"}),
           Required("float", {"throughput_ref", "bandwidth_to_master_mbps", "rtt_to_master_ms"})})
TaskRequires ==
    Model({Required("int", {"min_vram_mb"}),
           Required("bool", {"gpu_required"}),
           Required("float", {"est_work_units"})})

\* proto/messages.py: the two unions, each by its tag.
WorkerMessage ==
    [join |-> Model({Required("str", {"token"}), Nested("profile", CapabilityProfile)}),
     heartbeat |-> Model({Required("str", {"worker_id"}), OrNone("str", {"task_id"}),
                          OrNone("float", {"throughput_sample"})}),
     task_progress |-> Model({Required("str", {"task_id"}), Required("object", {"fields"})}),
     task_result |-> Model({Required("str", {"task_id"}), Required("word", {"status"}),
                            OrNone("object", {"metrics"}), OrNone("list", {"output_refs"}),
                            OrNone("str", {"error"})}),
     profile_update |-> Model({Required("str", {"worker_id"}),
                               Nested("profile", CapabilityProfile)})]
MasterMessage ==
    [join_ack |-> Required("str", {"worker_id"}),
     join_reject |-> Required("str", {"reason"}),
     task_assign |-> Model({Required("str", {"task_id", "code_ref"}),
                            Required("object", {"args"}), Required("list", {"input_refs"}),
                            Nested("requires", TaskRequires)}),
     task_cancel |-> Required("str", {"task_id"}),
     bandwidth_probe |-> Required("str", {})]

-----------------------------------------------------------------------------
(* Reading: validation of a JSON object against a schema.                  *)
OfKind ==
    [str |-> {"text", "word"}, word |-> {"word"}, int |-> {"whole", "true"},
     float |-> {"whole", "fraction", "true"}, bool |-> {"true"},
     object |-> {"object"}, list |-> {"array"}]
Accepts(field) == OfKind[field.kind] \cup (IF field.optional THEN {"null"} ELSE {})

Invalid == [type |-> "ValidationError", body |-> <<>>]

\* An unknown field is ignored; a missing one is None where that is the default.
Fits_Forbids(schema, body) ==
    /\ DOMAIN body \subseteq DOMAIN schema
    /\ \A p \in DOMAIN schema :
        IF p \in DOMAIN body THEN body[p] \in Accepts(schema[p]) ELSE schema[p].optional
Fits(schema, body) ==
    \A p \in DOMAIN schema :
        IF p \in DOMAIN body THEN body[p] \in Accepts(schema[p]) ELSE schema[p].optional

\* A number field makes a number of true.
Coerced(kind, value) == IF kind \in {"int", "float"} /\ value = "true" THEN "whole" ELSE value
Read(schema, body) ==
    [p \in DOMAIN schema |->
        IF p \in DOMAIN body THEN Coerced(schema[p].kind, body[p]) ELSE "null"]

\* The discriminator names the schema, in one of the two unions.
Parse_AnyTag(union, frame) ==
    LET all == Model({WorkerMessage, MasterMessage}) IN
    IF frame.type \in DOMAIN all /\ Fits(all[frame.type], frame.body)
    THEN [type |-> frame.type, body |-> Read(all[frame.type], frame.body)]
    ELSE Invalid
Parse(union, frame) ==
    IF frame.type \in DOMAIN union /\ Fits(union[frame.type], frame.body)
    THEN [type |-> frame.type, body |-> Read(union[frame.type], frame.body)]
    ELSE Invalid
parse_worker_message(frame) == Parse(WorkerMessage, frame)
parse_master_message(frame) == Parse(MasterMessage, frame)

(* Writing: model_dump_json has no token for NaN and infinities.           *)
Dumped(value) == IF value = "nonfinite" THEN "null" ELSE value
model_dump_json(message) ==
    [type |-> message.type, body |-> [p \in DOMAIN message.body |-> Dumped(message.body[p])]]

-----------------------------------------------------------------------------
(* Messages and frames.                                                    *)

Plain ==
    [str |-> "text", word |-> "word", int |-> "whole", float |-> "fraction",
     bool |-> "true", object |-> "object", list |-> "array"]
PlainMessage(union, tag) ==
    [type |-> tag, body |-> [p \in DOMAIN union[tag] |-> Plain[union[tag][p].kind]]]

\* What a field of a message holds, which pydantic checked when it was built.
Values(field) ==
    {Plain[field.kind]} \cup (IF field.optional THEN {"null"} ELSE {})
                        \cup (IF field.kind = "float" THEN {"nonfinite"} ELSE {})

\* The messages with a tag: a plain one, and those that differ in one field.
Messages(union, tag) ==
    LET plain == PlainMessage(union, tag) IN
    {plain} \cup UNION {{[plain EXCEPT !.body[p] = v] : v \in Values(union[tag][p])} :
                            p \in DOMAIN plain.body}

\* How peers of this, of a later and of an earlier version write a message: one
\* has fields more, the other leaves out what it has no value for.
Versions(message) ==
    LET frame == model_dump_json(message) IN
    {frame,
     [frame EXCEPT !.body = [p \in DOMAIN @ \cup {<<"added later">>} |->
                                IF p \in DOMAIN @ THEN @[p] ELSE "text"]],
     [frame EXCEPT !.body = [p \in {q \in DOMAIN @ : @[q] # "null"} |-> @[p]]]}

\* Other frames: an unknown tag, a plain message of either direction, and one
\* of the Master's with a field that is missing or has another value.
Leaves == {"text", "word", "whole", "fraction", "true", "object", "array", "null"}
Without(body, p) == [q \in DOMAIN body \ {p} |-> body[q]]
Damaged(frame) ==
    UNION {{[frame EXCEPT !.body = Without(@, p)]} \cup
           {[frame EXCEPT !.body[p] = v] : v \in Leaves} : p \in DOMAIN frame.body}
Unknown == [type |-> "unknown", body |-> [p \in {<<"x">>} |-> "text"]]
Frames ==
    {Unknown} \cup {PlainMessage(WorkerMessage, tag) : tag \in DOMAIN WorkerMessage}
    \cup UNION {{f} \cup Damaged(f) :
                   f \in {PlainMessage(MasterMessage, tag) : tag \in DOMAIN MasterMessage}}
=============================================================================
