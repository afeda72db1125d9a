------------------------------- MODULE Device -------------------------------
(***************************************************************************)
(* What the client tells the server about the machine it runs on, and how  *)
(* it brings user-controlled text into shape: device_info.hpp,             *)
(* machine_id.hpp and the request bodies of client.hpp, as functions.      *)
(*                                                                         *)
(* A text is a sequence of characters; a hash is the text it is taken of.  *)
(* What the operating system answers is an input.                          *)
(***************************************************************************)
EXTENDS Integers, Sequences, SequencesExt, FiniteSetsExt

CONSTANTS None,
          Gib,                        \* KL_GIB
          VersionMax, NameMax,        \* OS_VERSION_MAX, INSTANCE_NAME_MAX
          Control, Continuation,      \* the control and UTF-8 continuation bytes
          Whitespace,                 \* what std::isspace() and the trim pass over
          Upper                       \* std::toupper(), where it changes a character

DigitChars == {"0", "1", "2", "3", "4", "5", "6", "7", "8", "9"}

\* The name of the range a number lies in.
RangeOf(n, ranges) ==
  IF \E r \in ranges : r.from <= n /\ n < r.to
  THEN (CHOOSE r \in ranges : r.from <= n /\ n < r.to).name ELSE <<>>

Buckets(edges, names, top) ==
  {[from |-> edges[i], to |-> IF i = Len(edges) THEN top ELSE edges[i + 1],
    name |-> <<names[i]>>] : i \in DOMAIN edges}

\* cpu_cores_bucket(), memory_bucket(): zero is unknown.
CoresBucket(n) ==
  RangeOf(n, Buckets(<<1, 3, 5, 9, 17>>, <<"1-2", "3-4", "5-8", "9-16", "17+">>, n + 1))

MemoryBucket(bytes) ==
  RangeOf(bytes, Buckets(<<1, 4 * Gib, 8 * Gib, 16 * Gib, 32 * Gib, 64 * Gib>>,
                   <<"<4GB", "4-8GB", "8-16GB", "16-32GB", "32-64GB", "64GB+">>, bytes + 1))

\* dotted_numeric(): the first run of digits and dots without its last dots,
\* rejected rather than cut when it is too long or has an empty component.
DottedNumeric(raw) ==
  LET starts == {i \in DOMAIN raw : raw[i] \in DigitChars}
      start  == Min(starts)
      stop   == Max({n \in start .. Len(raw) :
                       \A i \in start .. n : raw[i] \in DigitChars \cup {"."}})
      end    == Max({n \in start .. stop : raw[n] # "."})
      run    == SubSeq(raw, start, end)
  IN IF starts = {} THEN <<>>
     ELSE IF \/ Len(run) > VersionMax
             \/ \E i \in 1 .. Len(run) - 1 : run[i] = "." /\ run[i + 1] = "."
     THEN <<>> ELSE run

TrimmedRight(s, blanks) ==
  SubSeq(s, 1, Max({0} \cup {i \in DOMAIN s : s[i] \notin blanks}))

\* Seeded fault: the cap falls where it falls.
SanitizedCut(s) ==
  LET kept == TrimmedRight(SelectSeq(s, LAMBDA c : c \notin Control), {" "})
  IN SubSeq(kept, 1, Min({Len(kept), NameMax}))

\* sanitize_instance_name(): a cut through a character drops all of it.
Sanitized(s) ==
  LET kept == TrimmedRight(SelectSeq(s, LAMBDA c : c \notin Control), {" "})
      cut  == Max({0} \cup {n \in 1 .. NameMax : kept[n + 1] \notin Continuation})
  IN IF Len(kept) <= NameMax THEN kept ELSE SubSeq(kept, 1, cut)

\* detect_machine_name(), and activate()'s name for a machine without one.
InstanceName(host) ==
  LET name == IF host = None THEN <<>> ELSE Sanitized(host)
  IN IF name = <<>> THEN <<"d", "e", "v", "i", "c", "e">> ELSE name

----------------------------------------------------------------------------
\* normalizeKey(), isValidKeyFormat(), cachedLicenseKey(), upgradeUrl()
NormalizeKey(key) ==
  LET kept == SelectSeq(key, LAMBDA c : c # "-" /\ c \notin Whitespace)
  IN [i \in DOMAIN kept |-> IF kept[i] \in DOMAIN Upper THEN Upper[kept[i]] ELSE kept[i]]

IsValidKeyFormat(prefix, key) ==
  /\ NormalizeKey(key) # <<>>
  /\ prefix = <<>> \/ IsPrefix(NormalizeKey(prefix), NormalizeKey(key))

\* An empty key is none.
CachedLicenseKey(key) == IF key = <<>> THEN None ELSE key

UpgradeUrl(tenant, key) ==
  IF CachedLicenseKey(key) = None THEN None
  ELSE [tenant |-> tenant, license |-> NormalizeKey(key)]

\* api_url_()
ApiUrl(base, tenant, product, action) ==
  TrimmedRight(base, {"/"}) \o <<"/">> \o tenant \o <<"/">> \o product \o <<"/", action>>

\* Where a product's blob is kept: default_store_path(), legacy_plaintext_path();
\* the adapters name the latter in directories of their own.
FileName(tenant, product, extension) == tenant \o <<"-">> \o product \o <<extension>>

DefaultStorePath(home, tenant, product) ==
  [dir |-> IF home = None THEN "temp" ELSE home, file |-> FileName(tenant, product, ".bin")]

LegacyPlaintextPath(home, tenant, product) ==
  [dir |-> IF home = None THEN "temp" ELSE home, file |-> FileName(tenant, product, ".lease")]

----------------------------------------------------------------------------
\* read_file_trimmed_(): None for a file that is missing or blank.
ReadFileTrimmed(text) ==
  IF text = None \/ \A i \in DOMAIN text : text[i] \in Whitespace THEN None
  ELSE LET dark == {i \in DOMAIN text : text[i] \notin Whitespace}
       IN SubSeq(text, Min(dark), Max(dark))

\* read_hardware_id() on Linux: the first of the two files that has one.
ReadHardwareId(etc, dbus) ==
  IF ReadFileTrimmed(etc) # None THEN ReadFileTrimmed(etc) ELSE ReadFileTrimmed(dbus)

\* Seeded fault: only what is read now counts.
CachedHardwareIdLive(cached, live) ==
  [id |-> IF live = <<>> THEN None ELSE live, cached |-> cached, save |-> FALSE]

\* cached_hardware_id_value_(): a live reading is written through when it is new;
\* without one the last one counts.
CachedHardwareId(cached, live) ==
  IF live \notin {None, <<>>}
  THEN [id |-> live, cached |-> live, save |-> cached # live]
  ELSE [id |-> IF cached = <<>> THEN None ELSE cached, cached |-> cached, save |-> FALSE]

\* machine_hash(), machine_hash_()
MachineHash(tenant, product, id) ==
  IF id = None THEN None ELSE <<"keylight-keyless-machine-v1", tenant, product, id>>

\* uuid_v4() of sixteen random bytes, as its digits' values.
UuidV4(random) ==
  LET b == [random EXCEPT ![7] = (@ % 16) + 64, ![9] = (@ % 64) + 128]
  IN FlattenSeq([i \in 1 .. 16 |->
       (IF i \in {5, 7, 9, 11} THEN <<"-">> ELSE <<>>) \o <<b[i] \div 16, b[i] % 16>>])

----------------------------------------------------------------------------
\* Request bodies: names and values, in order.

Field(name, value) == <<[name |-> name, value |-> value]>>

\* A field the platform has no value for is left out.
Known(name, value) == IF value \in {None, <<>>} THEN <<>> ELSE Field(name, value)

\* build_json_() with telemetry
Telemetry(cfg, dev) ==
  Field("sdk_version", cfg.sdkVersion) \o Field("platform", dev.platform)
    \o Field("sdk", "cpp") \o Field("sdk_trial_duration_days", cfg.trialDays)
    \o Known("app_version", cfg.appVersion)
    \o Known("cpu_cores", CoresBucket(dev.cores))
    \o Known("memory", MemoryBucket(dev.memory))
    \o Known("os_version", DottedNumeric(dev.release)) \o Known("arch", dev.arch)

\* append_attribution_fields_()
Attribution(cfg, c, id, withInstance) ==
  (IF withInstance THEN Known("free_tier_instance_id", c.freeTierInstanceId) ELSE <<>>)
    \o Known("machine_hash", MachineHash(cfg.tenant, cfg.product, id))

ActivateBody(cfg, dev, c, id, key) ==
  Field("license_key", key) \o Field("instance_name", InstanceName(dev.host))
    \o Attribution(cfg, c, id, TRUE) \o Telemetry(cfg, dev)

\* build_validate_body_()
ValidateBody(cfg, dev, c, id) ==
  Field("license_key", c.licenseKey) \o Field("instance_id", c.instanceId)
    \o Attribution(cfg, c, id, FALSE) \o Telemetry(cfg, dev)

\* Nothing is sent without an instance id.
DeactivateBody(c) ==
  IF c.instanceId = <<>> THEN None
  ELSE Field("license_key", c.licenseKey) \o Field("instance_id", c.instanceId)

KeylessBody(cfg, dev, c, id, wire) ==
  Field("instance_id", c.freeTierInstanceId) \o Field("state", wire)
    \o Known("machine_hash", MachineHash(cfg.tenant, cfg.product, id))
    \o Telemetry(cfg, dev)

----------------------------------------------------------------------------
(* What is required of it. *)

ValueIn(body, name) ==
  IF \E i \in DOMAIN body : body[i].name = name
  THEN body[CHOOSE i \in DOMAIN body : body[i].name = name].value ELSE None

NamesOnce(body) == \A i, j \in DOMAIN body : body[i].name = body[j].name => i = j

\* The readings of a sequence of launches: each event reads the id once, its save
\* succeeds or not, and the process may be launched again afterwards.
Read(acc, e) ==
  LET r == CachedHardwareId(acc.cached, e.live)
      kept == IF r.save /\ e.saved THEN r.cached ELSE acc.stored
  IN [ids |-> Append(acc.ids, r.id), stored |-> kept,
      cached |-> IF e.relaunch THEN kept ELSE r.cached]

Readings(events) ==
  FoldLeft(Read, [ids |-> <<>>, stored |-> None, cached |-> None], events).ids

\* The id that is sent is the newest that was ever read, across launches, while
\* saves work; and it is never one that was not read.
IdsAreStable(traces) ==
  \A events \in traces :
    \A n \in DOMAIN events :
      LET read   == {i \in 1 .. n : events[i].live \notin {None, <<>>}}
          newest == IF read = {} THEN None ELSE events[Max(read)].live
          id     == Readings(events)[n]
      IN /\ id = None \/ \E i \in read : events[i].live = id
         /\ (\A i \in 1 .. n : events[i].saved) => id = newest

\* A device that converts from the free tier is counted once: its activation names
\* the beacon's id and hash, and so does every later validation by the hash.  No
\* body names a field twice.
ConversionIsOneDevice(cfgs, devs, caches, ids) ==
  \A cfg \in cfgs, dev \in devs, c \in caches, id \in ids :
    LET beacon == KeylessBody(cfg, dev, c, id, "trial")
        paid   == ActivateBody(cfg, dev, c, id, <<"K">>)
        later  == ValidateBody(cfg, dev, c, id)
    IN /\ ValueIn(beacon, "instance_id") = ValueIn(paid, "free_tier_instance_id")
       /\ \A body \in {paid, later} :
            ValueIn(body, "machine_hash") = ValueIn(beacon, "machine_hash")
       /\ \A body \in {beacon, paid, later} : NamesOnce(body)

\* A host name stays text: within the cap, no character cut in two or lost but at
\* the end, and what was sanitised stays as it is but for spaces the cut bared.
NamesAreText(hosts) ==
  \A s \in hosts :
    LET out  == Sanitized(s)
        kept == SelectSeq(s, LAMBDA c : c \notin Control)
    IN /\ Len(out) <= NameMax /\ IsPrefix(out, kept)
       /\ \/ Len(out) \in {0, Len(kept)} \/ kept[Len(out) + 1] \notin Continuation
       /\ Sanitized(out) = TrimmedRight(out, {" "})

\* A version is what a reader sees first in the text, or nothing.
VersionsAreDotted(raws) ==
  \A raw \in raws :
    LET v == DottedNumeric(raw)
    IN v # <<>> =>
         /\ Len(v) <= VersionMax
         /\ v[1] # "." /\ v[Len(v)] # "."
         /\ \E i \in 0 .. Len(raw) - Len(v) :
              /\ SubSeq(raw, i + 1, i + Len(v)) = v
              /\ \A j \in 1 .. i : raw[j] \notin DigitChars
         /\ DottedNumeric(v) = v

\* Keys that differ in separators and case alone are one key, plausible alike and,
\* unless they have nothing else, of one upgrade page.
KeysAreOne(keys, prefixes) ==
  \A k \in keys :
    /\ NormalizeKey(NormalizeKey(k)) = NormalizeKey(k)
    /\ \A p \in prefixes : IsValidKeyFormat(p, k) = IsValidKeyFormat(p, NormalizeKey(k))
    /\ NormalizeKey(k) # <<>> => UpgradeUrl("t", k) = UpgradeUrl("t", NormalizeKey(k))

\* An endpoint has one address however its base is ended, and two hosts share none;
\* two products share no file, and neither shares the other's plaintext one, unless
\* an id has the separator in it.
ProductsAreApart(bases, ids) ==
  \A t, u, p, q \in ids :
    /\ \A b, c \in bases :
         ApiUrl(b, t, p, "validate") = ApiUrl(c, t, p, "validate")
           <=> TrimmedRight(b, {"/"}) = TrimmedRight(c, {"/"})
    /\ DefaultStorePath(None, t, p) # LegacyPlaintextPath(None, u, q)
    /\ DefaultStorePath(None, t, p) = DefaultStorePath(None, u, q) =>
         <<t, p>> = <<u, q>> \/ \E id \in {t, u, p, q} : "-" \in Range(id)

\* Each number falls into one bucket, and no two buckets of a larger and a smaller
\* number are in the other order.
BucketsTile(numbers, Bucket(_)) ==
  \A m, n \in numbers :
    /\ Bucket(n) = <<>> <=> n = 0
    /\ \A k \in numbers : m <= k /\ k <= n /\ Bucket(m) = Bucket(n) => Bucket(k) = Bucket(n)

\* Two draws make one id only if they agree in all but the fixed six bits.
UuidsDiffer(draws) ==
  \A a, b \in draws :
    /\ Len(UuidV4(a)) = 36
    /\ UuidV4(a) = UuidV4(b) <=>
         \A i \in 1 .. 16 : CASE i = 7  -> a[i] % 16 = b[i] % 16
                              [] i = 9  -> a[i] % 64 = b[i] % 64
                              [] OTHER  -> a[i] = b[i]

\* A machine has an id exactly if one of its files has more than blanks in it.
FirstFileCounts(texts) ==
  \A etc, dbus \in texts :
    LET blank(text) == text = None \/ \A i \in DOMAIN text : text[i] \in Whitespace
        id == ReadHardwareId(etc, dbus)
    IN /\ id = None <=> blank(etc) /\ blank(dbus)
       /\ id # None => \E i \in 1 .. 2 :
            LET text == <<etc, dbus>>[i]
            IN /\ ~blank(text)
               /\ i = 2 => blank(etc)
               /\ {id[1], Last(id)} \cap Whitespace = {}
               /\ SelectSeq(id, LAMBDA c : c \notin Whitespace)
                    = SelectSeq(text, LAMBDA c : c \notin Whitespace)
=============================================================================
