----------------------------- MODULE Retention -----------------------------
(***************************************************************************)
(* RetentionPlanner.plan (retention/planner.py) and the selection that     *)
(* RetentionEngine.sweep deletes.  A catalogue is a sequence, oldest       *)
(* first, of [id, day, bytes, envelope, metadata]: the envelope is         *)
(* "stored", "gone" or "unreadable" (decrypt raises), and metadata gives   *)
(* each context field its value or None, case folded.  Rules are           *)
(* [age, bytes, records, low, overrides], an override [field, value, age]. *)
(***************************************************************************)
EXTENDS Integers, Sequences, FiniteSetsExt, SequencesExt, Options

CONSTANT DecryptBudget      \* decrypt_budget

\* RetentionRules.__post_init__ and ContextRetentionRule.__post_init__: one override for a
\* context field at most, ages and limits positive, and a low watermark under the high one.
ValidRules(rules) ==
    /\ rules.age >= 1 /\ rules.bytes > 0 /\ rules.records > 0
    /\ \A o \in rules.overrides : o.age >= 1 /\ o.field \in {"application", "workspace"}
    /\ \A o, p \in rules.overrides : o.field = p.field => o = p
    /\ rules.low = None \/ rules.low <= rules.bytes

\* The default is four fifths of the high watermark.
LowWatermark(rules) == IF rules.low = None THEN (rules.bytes * 4) \div 5 ELSE rules.low

Cutoffs(rules, today) ==
    {today - rules.age} \cup {today - o.age : o \in rules.overrides}

\* _matches_rule
Matching(entry, rules) == {o \in rules.overrides : entry.metadata[o.field] = o.value}

\* Mutant of EffectiveCutoff: the override that keeps a record longest wins.
EffectiveCutoffLongest(entry, rules, today) ==
    LET matched == {today - o.age : o \in Matching(entry, rules)}
    IN  IF matched = {} THEN today - rules.age ELSE Min(matched)

\* Of the overrides that match, the latest cutoff.
EffectiveCutoff(entry, rules, today) ==
    LET matched == {today - o.age : o \in Matching(entry, rules)}
    IN  IF matched = {} THEN today - rules.age ELSE Max(matched)

\* _expires_in_window
ExpiresInWindow(entry, rules, today) ==
    entry.envelope = "gone" \/ entry.day < EffectiveCutoff(entry, rules, today)

\* Records between the oldest and the newest cutoff need decryption.
Disputed(entry, rules, today) ==
    entry.day >= Min(Cutoffs(rules, today)) /\ entry.day < Max(Cutoffs(rules, today))

\* Those that no override can save, and those of the window that a look at their context
\* condemns.
Expired(catalogue, rules, today) ==
    {e \in ToSet(catalogue) :
        \/ e.day < Min(Cutoffs(rules, today))
        \/ Disputed(e, rules, today) /\ ExpiresInWindow(e, rules, today)}

\* plan raises: the window holds more records than the budget, its contexts cannot be read
\* without an EncryptionProvider, or one of them cannot be decrypted.
PlanFails(catalogue, rules, today, encryption) ==
    LET window == {e \in ToSet(catalogue) : Disputed(e, rules, today)}
    IN  \/ Cardinality(window) > DecryptBudget
        \/ \E e \in window : ~encryption \/ e.envelope = "unreadable"

Bytes(entries) == FoldSeq(LAMBDA e, n : e.bytes + n, 0, entries)

\* Mutant of Enough: one record too few.
EnoughButOne(prefix, overflow, mustFree) ==
    Len(prefix) + 1 >= overflow /\ Bytes(prefix) >= mustFree

\* Mutant of Enough: one record too many.
EnoughAndOne(prefix, overflow, mustFree) ==
    Len(prefix) > overflow /\ Bytes(prefix) >= mustFree

\* The loop of _eviction_set stops at the first prefix that frees enough.
Enough(prefix, overflow, mustFree) ==
    Len(prefix) >= overflow /\ Bytes(prefix) >= mustFree

\* _eviction_set: usage counts the expired records too, what is freed does not.
Evicted(catalogue, expired, rules) ==
    LET usage    == Bytes(catalogue)
        overflow == Max({Len(catalogue) - rules.records, 0})
        pressure == usage > rules.bytes
        mustFree == IF pressure THEN Max({usage - LowWatermark(rules), 0}) ELSE 0
        kept     == SelectSeq(catalogue, LAMBDA e : e \notin expired)
        lengths  == {n \in 0..Len(kept) :
                        n = Len(kept) \/ Enough(SubSeq(kept, 1, n), overflow, mustFree)}
    IN  IF overflow = 0 /\ ~pressure THEN {}
        ELSE ToSet(SubSeq(kept, 1, Min(lengths)))

\* What a sweep that is not a dry run deletes.
Swept(catalogue, rules, today, encryption) ==
    LET expired == Expired(catalogue, rules, today)
    IN  IF PlanFails(catalogue, rules, today, encryption) THEN {}
        ELSE expired \cup Evicted(catalogue, expired, rules)

-----------------------------------------------------------------------------
\* docs/retention.md, for a sweep that is planned.  A record expires exactly when it is
\* older than the limit that applies to it ("When several overrides match, the most
\* aggressive expiry wins") or its envelope vanished from the window.  The caps hold after
\* the sweep and, under pressure, usage is at the low watermark.  Others are evicted oldest
\* first, only when a cap or watermark is exceeded, and no more of them than it takes when
\* the expired records are counted as still there: planner.py does not credit what they
\* free, so a sweep that expires records may evict as much again.
SweepExact(catalogue, rules, today, encryption) ==
    LET gone   == Swept(catalogue, rules, today, encryption)
        left   == SelectSeq(catalogue, LAMBDA e : e \notin gone)
        ages(e) == {o.age : o \in {x \in rules.overrides : e.metadata[x.field] = x.value}}
        limit(e) == IF ages(e) = {} THEN rules.age ELSE Min(ages(e))
        tooOld(e) == e.day < today - limit(e)
                       \/ (e.envelope = "gone" /\ Disputed(e, rules, today))
        old    == SelectSeq(catalogue, tooOld)
        evicted == {i \in DOMAIN catalogue : catalogue[i] \in gone /\ ~tooOld(catalogue[i])}
    IN  ~PlanFails(catalogue, rules, today, encryption) =>
        /\ ToSet(old) \subseteq gone
        /\ Len(left) <= rules.records /\ Bytes(left) <= rules.bytes
        /\ Bytes(catalogue) > rules.bytes => Bytes(left) <= LowWatermark(rules)
        /\ \A j \in evicted, i \in DOMAIN catalogue : i < j => catalogue[i] \in gone
        /\ evicted # {} =>
              \/ Len(left) + 1 + Len(old) > rules.records
              \/ /\ Bytes(catalogue) > rules.bytes
                 /\ Bytes(left) + catalogue[Max(evicted)].bytes + Bytes(old) > LowWatermark(rules)
=============================================================================
