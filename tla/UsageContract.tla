--------------------------- MODULE UsageContract ---------------------------
(* Token accounting of one upstream attempt: how provider-reported counters *)
(* are read, normalised and accumulated over the snapshots of a stream      *)
(* (crates/usage-contract), how the host reads the typed snapshots of a     *)
(* provider plugin and compares each with the one before                    *)
(* (src/provider_plugins), and the validation the recorder's wire format    *)
(* applies to both.                                                         *)
(*                                                                          *)
(* A token count is a member of Values and u64::MAX is MaxU64, so that a    *)
(* checked addition can overflow.  A JSON value at a usage path is a count, *)
(* Null, or Bad (negative, fractional, too large, or no number at all).     *)
EXTENDS Integers, FiniteSets, Sequences, TLC

CONSTANTS
    Profiles,   \* usage profiles under study, Plugin for the typed snapshots
    Values,     \* the counts a provider reports
    MaxU64,     \* the largest count
    Null, Bad,  \* the other JSON values
    NoValue,    \* Option::None
    Snapshots   \* what a plugin may report in one reply

Fields == {"input_tokens", "output_tokens", "total_tokens",
           "input_regular_tokens", "cache_read_input_tokens",
           "cache_write_input_tokens", "reasoning_output_tokens"}

Unknown(source) == [value |-> NoValue, source |-> source]
Known(n, source) == [value |-> n, source |-> source]
NotReported == Unknown("not_reported")
Invalid == Unknown("invalid")

(* The counters of a typed snapshot.                                        *)
SnapshotCounters == {Known(n, "reported") : n \in Values}
                       \union {NotReported, Unknown("not_applicable"), Invalid}

ASSUME ContractAssumption ==
    /\ MaxU64 \in Nat
    /\ Values \subseteq 0..MaxU64
    /\ {Null, Bad, NoValue} \cap (0..MaxU64) = {}
    /\ Snapshots \subseteq [Fields -> SnapshotCounters]

VARIABLES
    profile,     \* the profile of the attempt
    reported,    \* Accumulator.reported: path -> counter
    usage,       \* Accumulator.usage, or the observation of a plugin
    incomplete,  \* Accumulator.incomplete, observation_incomplete
    session      \* of a plugin: "open" until its phase is Failed or Finished

contractVars == <<profile, reported, usage, incomplete, session>>

(****************************************************************************)
(* Counters and canonical usage.                                            *)
(****************************************************************************)
Read(json) == CASE json = Null    -> NotReported
                [] json \in Values -> Known(json, "reported")
                [] OTHER           -> Invalid

Derived(n) == IF n = NoValue THEN Invalid ELSE Known(n, "derived")

CheckedAdd(a, b) ==
    IF NoValue \in {a, b} THEN NoValue ELSE IF a + b > MaxU64 THEN NoValue ELSE a + b

CheckedSum(a, b, c) == CheckedAdd(CheckedAdd(a, b), c)

DefaultUsage == [counters |-> [f \in Fields |-> NotReported],
                 details |-> <<>>, reported |-> <<>>, violations |-> {}]

Value(u, field) == u.counters[field].value

HasValues(u, fields) == \A f \in fields : Value(u, f) # NoValue

Set(u, field, counter) == [u EXCEPT !.counters[field] = counter]

Violation(u, reason) == [u EXCEPT !.violations = @ \union {reason}]

SetInvalid(u, field, reason) == Violation(Set(u, field, Invalid), reason)

Invalidate(u, fields, reason) ==
    LET v == [u EXCEPT !.counters = [f \in Fields |-> IF f \in fields THEN Invalid ELSE @[f]]]
    IN  IF fields = {} THEN u ELSE Violation(v, reason)

Observed(u) == \E f \in Fields : Value(u, f) # NoValue

AnyInvalid(u) == \E f \in Fields : u.counters[f] = Invalid

(****************************************************************************)
(* The paths a profile reads, and the field each one reports.               *)
(****************************************************************************)
ChatPaths == [prompt_tokens |-> "input_tokens",
              completion_tokens |-> "output_tokens",
              total_tokens |-> "total_tokens",
              cached_tokens |-> "cache_read_input_tokens",
              reasoning_tokens |-> "reasoning_output_tokens"]

Paths ==
    "gemini_interactions/v1" :>
        [total_input_tokens |-> "input_tokens",
         total_output_tokens |-> "output_tokens",
         total_thought_tokens |-> "reasoning_output_tokens",
         total_cached_tokens |-> "cache_read_input_tokens",
         total_tokens |-> "total_tokens"]
 @@ "responses/v1" :>
        [input_tokens |-> "input_tokens",
         output_tokens |-> "output_tokens",
         total_tokens |-> "total_tokens",
         cached_tokens |-> "cache_read_input_tokens",
         cache_write_tokens |-> "cache_write_input_tokens",
         reasoning_tokens |-> "reasoning_output_tokens"]
 @@ "chat/v1" :> ChatPaths
 @@ "deepseek/v1" :>
        (ChatPaths @@ [prompt_cache_hit_tokens |-> "cache_read_input_tokens",
                       prompt_cache_miss_tokens |-> "input_regular_tokens"])
 @@ "messages/v1" :>
        [input_tokens |-> "input_regular_tokens",
         output_tokens |-> "output_tokens",
         cache_read_input_tokens |-> "cache_read_input_tokens",
         cache_creation_input_tokens |-> "cache_write_input_tokens"]

TtlPaths == {"ephemeral_5m_input_tokens", "ephemeral_1h_input_tokens"}

AllowedPaths(p) == DOMAIN Paths[p] \union (IF p = "messages/v1" THEN TtlPaths ELSE {})

(* What a usage object yields: one counter per allowed path it carries.     *)
Extract(p, object) ==
    [path \in (DOMAIN object) \cap AllowedPaths(p) |-> Read(object[path])]

(* A usage that is no object invalidates every mapped path.                 *)
ExtractOther(p) == [path \in DOMAIN Paths[p] |-> Invalid]

(****************************************************************************)
(* normalize: the canonical counters of the reported paths.                 *)
(****************************************************************************)
(* DeepSeek's own cache counter is read last and overrides its Chat alias.  *)
Mapped(p, rep) ==
    LET read == (DOMAIN rep) \cap DOMAIN Paths[p]
        used == IF "prompt_cache_hit_tokens" \in read THEN read \ {"cached_tokens"}
                ELSE read
    IN  [f \in Fields |-> IF \E path \in used : Paths[p][path] = f
                          THEN rep[CHOOSE path \in used : Paths[p][path] = f]
                          ELSE NotReported]

FromPaths(p, rep) ==
    LET u == [counters |-> Mapped(p, rep), details |-> <<>>, reported |-> rep, violations |-> {}]
    IN  IF AnyInvalid(u) THEN Violation(u, "invalid_counter") ELSE u

ReportedValue(u, path) ==
    IF path \in DOMAIN u.reported THEN u.reported[path].value ELSE NoValue

DeepSeekRules(u) ==
    LET alias == ReportedValue(u, "cached_tokens")
        hit == ReportedValue(u, "prompt_cache_hit_tokens")
        v == IF NoValue \notin {alias, hit} /\ alias # hit
             THEN SetInvalid(u, "cache_read_input_tokens", "cache_alias_mismatch")
             ELSE u
    IN  IF /\ hit # NoValue
           /\ HasValues(v, {"input_regular_tokens", "input_tokens"})
           /\ CheckedAdd(hit, Value(v, "input_regular_tokens")) # Value(v, "input_tokens")
        THEN SetInvalid(v, "input_regular_tokens", "input_partition")
        ELSE v

GeminiRules(u) ==
    Set(u, "output_tokens",
        IF HasValues(u, {"output_tokens", "reasoning_output_tokens"})
        THEN Derived(CheckedAdd(Value(u, "output_tokens"),
                                Value(u, "reasoning_output_tokens")))
        ELSE NotReported)

MessagesRules(u) ==
    LET parts == {"input_regular_tokens", "cache_read_input_tokens",
                  "cache_write_input_tokens"}
        summed == IF HasValues(u, parts)
                  THEN Set(u, "input_tokens",
                           Derived(CheckedSum(Value(u, "input_regular_tokens"),
                                              Value(u, "cache_read_input_tokens"),
                                              Value(u, "cache_write_input_tokens"))))
                  ELSE u
        ttl == TtlPaths \cap DOMAIN u.reported
        v == [summed EXCEPT !.details = [path \in ttl |-> u.reported[path]]]
        sum == CheckedAdd(ReportedValue(u, "ephemeral_5m_input_tokens"),
                          ReportedValue(u, "ephemeral_1h_input_tokens"))
    IN  IF /\ ttl = TtlPaths
           /\ sum # NoValue
           /\ HasValues(v, {"cache_write_input_tokens"})
           /\ sum # Value(v, "cache_write_input_tokens")
        THEN SetInvalid(v, "cache_write_input_tokens", "ttl_mismatch")
        ELSE v

(* Cache reads and writes partition the input.                              *)
PartitionRule(p, u) ==
    LET rest == Value(u, "input_tokens") - Value(u, "cache_read_input_tokens")
                                         - Value(u, "cache_write_input_tokens")
    IN  IF ~HasValues(u, {"input_tokens", "cache_read_input_tokens",
                          "cache_write_input_tokens"})
        THEN u
        ELSE IF rest < 0
        THEN SetInvalid(SetInvalid(u, "cache_read_input_tokens", "input_partition"),
                        "cache_write_input_tokens", "input_partition")
        ELSE IF p = "messages/v1" THEN u
        ELSE Set(u, "input_regular_tokens", Derived(rest))

SubsetRule(u, field, parent) ==
    IF HasValues(u, {field, parent}) /\ Value(u, field) > Value(u, parent)
    THEN SetInvalid(u, field, "subset_exceeds_total")
    ELSE u

SubsetRules(u) ==
    SubsetRule(SubsetRule(SubsetRule(u,
        "cache_read_input_tokens", "input_tokens"),
        "cache_write_input_tokens", "input_tokens"),
        "reasoning_output_tokens", "output_tokens")

TotalRule(u) ==
    LET sum == CheckedAdd(Value(u, "input_tokens"), Value(u, "output_tokens"))
        total == u.counters["total_tokens"]
    IN  IF ~HasValues(u, {"input_tokens", "output_tokens"}) THEN u
        ELSE IF total.value # NoValue /\ total.value # sum
        THEN SetInvalid(u, "total_tokens", "total_mismatch")
        ELSE IF total = NotReported THEN Set(u, "total_tokens", Derived(sum))
        ELSE u

Normalize(p, rep) ==
    LET u == FromPaths(p, rep)
        v == CASE p = "deepseek/v1"            -> DeepSeekRules(u)
               [] p = "gemini_interactions/v1" -> GeminiRules(u)
               [] p = "messages/v1"            -> MessagesRules(u)
               [] OTHER                        -> u
        w == TotalRule(SubsetRules(PartitionRule(p, v)))
    IN  IF AnyInvalid(w) THEN Violation(w, "invalid_counter") ELSE w

(****************************************************************************)
(* The typed snapshot of a provider plugin: one counter per field.          *)
(****************************************************************************)
InputParts == <<"input_regular_tokens", "cache_read_input_tokens",
                "cache_write_input_tokens">>

PartSum(u) ==
    LET ValueOr0(f) == IF Value(u, f) = NoValue THEN 0 ELSE Value(u, f)
    IN  CheckedSum(ValueOr0(InputParts[1]), ValueOr0(InputParts[2]),
                   ValueOr0(InputParts[3]))

AllParts(u) == HasValues(u, {InputParts[i] : i \in 1..3})

PluginTotal(u) ==
    LET sum == CheckedAdd(Value(u, "input_tokens"), Value(u, "output_tokens"))
        total == u.counters["total_tokens"]
    IN  IF ~HasValues(u, {"input_tokens", "output_tokens"}) THEN u
        ELSE IF sum = NoValue \/ (total.value # NoValue /\ total.value # sum)
        THEN SetInvalid(u, "total_tokens", "total_mismatch")
        ELSE IF total = NotReported THEN Set(u, "total_tokens", Derived(sum))
        ELSE u

InvalidateInput(u) ==
    LET lost == {f \in {"input_tokens"} \union {InputParts[i] : i \in 1..3} :
                    Value(u, f) # NoValue}
                  \union {f \in {"total_tokens"} : u.counters[f].source = "derived"}
    IN  Invalidate(u, lost, "input_partition")

(* Mutant of PluginPartition: known parts may fall short of the input.      *)
PluginPartitionLoose(u) ==
    LET sum == PartSum(u)
        input == Value(u, "input_tokens")
    IN  IF sum = NoValue \/ (input # NoValue /\ sum # NoValue /\ sum > input)
        THEN InvalidateInput(u)
        ELSE u

PluginPartition(u) ==
    LET sum == PartSum(u)
        input == Value(u, "input_tokens")
    IN  IF \/ sum = NoValue
           \/ /\ input # NoValue
              /\ sum # NoValue
              /\ (sum > input \/ (AllParts(u) /\ sum # input))
        THEN InvalidateInput(u)
        ELSE u

ObserveSnapshot(counters) ==
    LET u == [DefaultUsage EXCEPT !.counters = counters]
        v == IF AnyInvalid(u) THEN Violation(u, "invalid_counter") ELSE u
    IN  PluginPartition(SubsetRule(SubsetRules(PluginTotal(v)),
                                   "input_regular_tokens", "input_tokens"))

(* observe_wire: the usage of a reply that cannot be decoded.  A malformed  *)
(* counter is an invalid one of a snapshot; a usage of another shape (Bad)  *)
(* has invalid counters only.                                               *)
ObserveWire(wire) ==
    IF wire = Bad THEN Invalidate(DefaultUsage, Fields, "invalid_counter")
    ELSE ObserveSnapshot(wire)

(* The counters that had a value before and have none or a smaller one now. *)
Fallen(previous, current) ==
    {f \in Fields : /\ current.counters[f].source # "invalid"
                    /\ Value(previous, f) # NoValue
                    /\ \/ Value(current, f) = NoValue
                       \/ Value(current, f) < Value(previous, f)}

(* Mutant of ObserveCumulative: a derived total outlives its parts.         *)
ObserveCumulativeTotalKept(previous, current) ==
    Invalidate(current, Fallen(previous, current), "counter_decreased")

(* observe_cumulative: a later snapshot against the one before.  A total    *)
(* the host derived itself goes with either of its parts.                   *)
ObserveCumulative(previous, current) ==
    LET fallen == Fallen(previous, current)
        orphan == {f \in {"total_tokens"} :
                     /\ current.counters[f].source = "derived"
                     /\ \E g \in {"input_tokens", "output_tokens"} :
                           g \in fallen \/ current.counters[g].source = "invalid"}
    IN  Invalidate(current, fallen \union orphan, "counter_decreased")

(****************************************************************************)
(* Validation of the wire format, by the gateway before it sends an event   *)
(* and by the recorder whenever it reads one.                               *)
(****************************************************************************)
Reasons == {"invalid_counter", "input_partition", "total_mismatch",
            "subset_exceeds_total", "ttl_mismatch", "counter_decreased"}

CounterValid(c) ==
    IF c.value = NoValue
    THEN c.source \in {"not_reported", "not_applicable", "invalid"}
    ELSE c.source \in {"reported", "derived"}

UsageValid(u) ==
    /\ \A f \in Fields : CounterValid(u.counters[f])
    /\ \A path \in DOMAIN u.reported : CounterValid(u.reported[path])
    /\ \A path \in DOMAIN u.details : CounterValid(u.details[path])
    /\ u.violations \subseteq Reasons

(* UsageEvent::validate: the counters are those its own paths normalise to. *)
EventValid(p, u) ==
    LET n == Normalize(p, u.reported)
    IN  /\ u.counters = n.counters
        /\ u.details = n.details
        /\ u.violations \ {"counter_decreased"} = n.violations
        /\ \A path \in DOMAIN u.reported :
              u.reported[path].source \notin {"derived", "not_applicable"}
        /\ UsageValid(u)

(* UsageEventV2::validate, for the usage of a plugin.                       *)
ProviderUsageValid(u) ==
    /\ UsageValid(u)
    /\ DOMAIN u.reported = {} /\ DOMAIN u.details = {}
    /\ HasValues(u, {"input_tokens", "output_tokens", "total_tokens"}) =>
          CheckedAdd(Value(u, "input_tokens"), Value(u, "output_tokens"))
              = Value(u, "total_tokens")
    /\ HasValues(u, {"input_tokens"}) =>
          /\ PartSum(u) # NoValue
          /\ PartSum(u) <= Value(u, "input_tokens")
          /\ AllParts(u) => PartSum(u) = Value(u, "input_tokens")
    /\ HasValues(u, {"reasoning_output_tokens", "output_tokens"}) =>
          Value(u, "reasoning_output_tokens") <= Value(u, "output_tokens")

(****************************************************************************)
(* The attempt observes one snapshot after another.                         *)
(****************************************************************************)
ContractInit ==
    /\ profile \in Profiles
    /\ reported = <<>>
    /\ usage = DefaultUsage
    /\ incomplete = FALSE
    /\ session = "open"

Fell(path, counter) ==
    /\ path \in DOMAIN reported
    /\ reported[path].value # NoValue
    /\ counter.value # NoValue
    /\ counter.value < reported[path].value

(* Accumulator::observe_counters: a counter that falls is marked invalid.   *)
ObserveCounters(counters, other) ==
    LET fallen == {path \in DOMAIN counters : Fell(path, counters[path])}
        merged == [path \in (DOMAIN reported) \union DOMAIN counters |->
                     IF path \in fallen THEN Invalid
                     ELSE IF path \in DOMAIN counters THEN counters[path]
                     ELSE reported[path]]
        next == Normalize(profile, merged)
    IN  /\ reported' = merged
        /\ incomplete' = (incomplete \/ other \/ fallen # {})
        /\ usage' = IF fallen = {} THEN next
                    ELSE Violation(next, "counter_decreased")
        /\ UNCHANGED <<profile, session>>

(* A usage object of the stream. Objects with one path each reach what      *)
(* larger ones do: the counters of several paths are merged one by one.     *)
ObserveObject ==
    /\ profile # "plugin"
    /\ \E path \in AllowedPaths(profile), json \in Values \union {Null, Bad} :
          ObserveCounters(Extract(profile, path :> json), FALSE)

(* A usage that is no object at all.                                        *)
ObserveOther ==
    /\ profile # "plugin"
    /\ ObserveCounters(ExtractOther(profile), TRUE)

(* The managed path hands over counters read under another profile.         *)
ObserveForeign ==
    /\ profile # "plugin"
    /\ incomplete' = TRUE
    /\ usage' = Normalize(profile, reported)
    /\ UNCHANGED <<profile, reported, session>>

(* The observation of a plugin becomes the usage of its event               *)
(* (ProviderAttempt::observe).                                              *)
ObserveProvider(observation) ==
    /\ usage' = observation
    /\ incomplete' = (incomplete \/ observation.violations # {} \/ AnyInvalid(observation))
    /\ UNCHANGED <<profile, reported>>

(* A reply of the plugin, to an event, to a JSON body or to finish.  Its    *)
(* snapshot is compared with the last one; one that breaks a rule ends the  *)
(* session (ensure_valid), and so may a later check of the same reply, or   *)
(* the end of the exchange.                                                 *)
PluginSnapshot(counters) ==
    /\ profile = "plugin"
    /\ session = "open"
    /\ ObserveProvider(ObserveCumulative(usage, ObserveSnapshot(counters)))
    /\ session' \in {"open", "closed"}
    /\ usage'.violations # {} => session' = "closed"

(* A reply the host cannot decode still reports a usage: what Session::call *)
(* read of it replaces an observation without violations, with no           *)
(* comparison (capture_attempt).                                            *)
PluginAttempt(wire) ==
    /\ profile = "plugin"
    /\ session = "open"
    /\ usage.violations = {}
    /\ ObserveProvider(ObserveWire(wire))
    /\ session' = "closed"

ContractNext ==
    \/ ObserveObject \/ ObserveOther \/ ObserveForeign
    \/ \E counters \in Snapshots : PluginSnapshot(counters)
    \/ \E wire \in Snapshots \union {Bad} : PluginAttempt(wire)

ContractSpec == ContractInit /\ [][ContractNext]_contractVars

----------------------------------------------------------------------------
(* Whatever a provider or a plugin reports over however many snapshots, the *)
(* usage the attempt accumulates is one the event codec and the recorder    *)
(* accept: an inconsistent or falling report is recorded as invalid         *)
(* counters and never stops the recorder (UsageEvent::validate,             *)
(* provider_usage_valid after observe_cumulative).                          *)
UsageIsRecordable ==
    IF profile = "plugin" THEN ProviderUsageValid(usage)
    ELSE EventValid(profile, usage)

(* The counters that survive agree with each other: cache reads, writes and *)
(* reasoning stay within what they are part of, the total is the sum, and a *)
(* total derived by the gateway stands only beside the two counters it was  *)
(* derived from, over falling snapshots too (observe_cumulative).  So the   *)
(* aggregation over stored events never meets an impossible partition       *)
(* (query::aggregate fails the whole query on one).                         *)
TokensAddUp ==
    /\ \A part \in {"cache_read_input_tokens", "cache_write_input_tokens"} :
          HasValues(usage, {part, "input_tokens"}) =>
              Value(usage, part) <= Value(usage, "input_tokens")
    /\ HasValues(usage, {"reasoning_output_tokens", "output_tokens"}) =>
          Value(usage, "reasoning_output_tokens") <= Value(usage, "output_tokens")
    /\ HasValues(usage, {"input_tokens", "cache_read_input_tokens",
                         "cache_write_input_tokens"}) =>
          Value(usage, "cache_read_input_tokens")
              + Value(usage, "cache_write_input_tokens")
                  <= Value(usage, "input_tokens")
    /\ HasValues(usage, {"input_tokens", "output_tokens", "total_tokens"}) =>
          Value(usage, "total_tokens")
              = Value(usage, "input_tokens") + Value(usage, "output_tokens")
    /\ usage.counters["total_tokens"].source = "derived" =>
          HasValues(usage, {"input_tokens", "output_tokens"})
============================================================================
