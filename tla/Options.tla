-------------------------------- MODULE Options -------------------------------
(***************************************************************************)
(* options.go and config.go: what a command line must be to be accepted,   *)
(* the defaults of a Config, its ranges, and the memory it needs.          *)
(*                                                                         *)
(* A word of a list option is a string, "" for one that is blank, and a    *)
(* list is the words between its commas, trimmed.  A path is whether it is *)
(* absolute, its names, and whether a separator is doubled.  Which of      *)
(* several faults is reported is not modelled: all of them exit 2.         *)
(***************************************************************************)
EXTENDS Integers, Sequences

CONSTANTS Numbers,                \* the words ParseUint takes
          Rejected,               \* a list that is an error
          maxListEntries, maxLabelPrefixes,
          minShutdownTimeout, maxShutdownTimeout,
          minUpstreamTimeout, maxUpstreamTimeout,
          maxResponseBytesLimit, maxConcurrentLimit, maxRateLimit,
          DefaultMaxResponseBytes, DefaultMaxConcurrent, DefaultUpstreamTimeout,
          responseMemoryFactor, memoryHeadroomFactor,
          MinInt64, MaxInt64

ASSUME OptionsAssumption ==
    /\ {maxListEntries, maxLabelPrefixes, maxShutdownTimeout, maxRateLimit, MaxInt64} \subseteq Nat
    /\ {responseMemoryFactor, memoryHeadroomFactor, minShutdownTimeout, minUpstreamTimeout,
        maxResponseBytesLimit, maxConcurrentLimit, maxUpstreamTimeout} \subseteq Nat \ {0}
    /\ DefaultMaxResponseBytes \in 1..maxResponseBytesLimit
    /\ DefaultMaxConcurrent \in 1..maxConcurrentLimit
    /\ DefaultUpstreamTimeout \in minUpstreamTimeout..maxUpstreamTimeout
    /\ MinInt64 = - MaxInt64 - 1
    \* The ends of the ranges of config.go:46-48, with app.go:31: int64 holds the
    \* largest need that is accepted.
    /\ memoryHeadroomFactor * maxConcurrentLimit * maxResponseBytesLimit
         * responseMemoryFactor <= MaxInt64

\* Go's int64 arithmetic.
Int64(x) == ((x - MinInt64) % (MaxInt64 - MinInt64 + 1)) + MinInt64

-----------------------------------------------------------------------------
Words(list) == {list[i] : i \in DOMAIN list}

splitList(parts) ==
    IF parts = <<"">> THEN <<>>
    ELSE IF Len(parts) > maxListEntries \/ "" \in Words(parts) THEN Rejected
    ELSE parts

parseIDList(parts) ==
    LET fields == splitList(parts) IN
    IF fields = Rejected THEN Rejected
    ELSE IF Words(fields) \subseteq Numbers THEN fields ELSE Rejected

\* Absolute, and not one path written twice.
validatePathSyntax(listen, docker) == listen.abs /\ docker.abs /\ listen # docker

\* Validate without the upper end of a range.
ValidateFloor(c) ==
    /\ c.bytes \in 1..maxResponseBytesLimit
    /\ c.conc >= 1
    /\ c.timeout \in minUpstreamTimeout..maxUpstreamTimeout
    /\ c.rate \in 0..maxRateLimit
    /\ Len(c.labels) <= maxLabelPrefixes /\ "" \notin Words(c.labels)

\* Config.Validate.  An empty DockerSocket is not absolute either.
Validate(c) ==
    /\ c.bytes \in 1..maxResponseBytesLimit
    /\ c.conc \in 1..maxConcurrentLimit
    /\ c.timeout \in minUpstreamTimeout..maxUpstreamTimeout
    /\ c.rate \in 0..maxRateLimit
    /\ Len(c.labels) <= maxLabelPrefixes
    /\ "" \notin Words(c.labels)

WithDefaults(c) ==
    [c EXCEPT !.bytes   = IF @ = 0 THEN DefaultMaxResponseBytes ELSE @,
              !.conc    = IF @ = 0 THEN DefaultMaxConcurrent ELSE @,
              !.timeout = IF @ = 0 THEN DefaultUpstreamTimeout ELSE @]

Modes == {"0600", "0660"}
logLevels == {"debug", "info", "warn", "error"}

-----------------------------------------------------------------------------
\* The command line is accepted.
Parse(line, canIdentify) ==
    /\ line.flags = "ok" /\ line.args = 0
    /\ line.mode \in Modes
    /\ line.level \in logLevels
    /\ line.shutdown \in {0} \union minShutdownTimeout..maxShutdownTimeout
    /\ Rejected \notin {parseIDList(line.uids), parseIDList(line.gids), splitList(line.labels)}
    /\ {parseIDList(line.uids), parseIDList(line.gids)} = {<<>>} \/ canIdentify
    /\ validatePathSyntax(line.listen, line.docker)
    /\ Validate([line EXCEPT !.labels = splitList(@)])

\* The Options of an accepted line.
Accepted(line) ==
    [line EXCEPT !.uids = parseIDList(@), !.gids = parseIDList(@), !.labels = splitList(@)]

WorstCaseMemoryBytes(c) == Int64(c.conc * c.bytes * responseMemoryFactor)

\* A limit that was never set is the largest there is.
warnOnMemoryLimit(c, limit) ==
    /\ limit # MaxInt64
    /\ Int64(WorstCaseMemoryBytes(c) * memoryHeadroomFactor) > limit
=============================================================================
