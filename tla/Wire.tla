--------------------------------- MODULE Wire ---------------------------------
(***************************************************************************)
(* What the client puts on the wire and into the store and takes back from *)
(* them: leases, the signed product settings, the published keys, and the  *)
(* blob; verifier.hpp, lease.hpp, config_payload.hpp, keyset.hpp, the      *)
(* base64 of result.hpp and the codecs of client.hpp, as values of Json.   *)
(*                                                                         *)
(* A signature is ideal here: a text that names its key and what it signs. *)
(* Ed25519 has the arithmetic.                                             *)
(***************************************************************************)
EXTENDS JsonText

CONSTANTS None,
          Skew      \* tolerance of the verifier and of the settings' window

M(k, v) == [key |-> Chars(k), val |-> v]

Bar(fields) == FlattenSeq([i \in DOMAIN fields |->
                 IF i = 1 THEN fields[i] ELSE <<"|">> \o fields[i]])

Decimals(n) == Chars(ToString(n))

----------------------------------------------------------------------------
\* Base64.  A digit is a number; the last two have two spellings, and a text may
\* hold blanks and padding.

Digits  == 0 .. 63
Letter  == [n \in Digits |-> CASE n = 62 -> "+" [] n = 63 -> "/" [] OTHER -> ToString(n)]
UrlSafe == "+" :> "-" @@ "/" :> "_"
Blanks  == {" ", "\t", "\n", "\r"}

\* Three bytes are four digits; the missing ones of the last group are padding.
EncodeGroup(g) ==
  LET byte(i)  == IF i \in DOMAIN g THEN g[i] ELSE 0
      b        == byte(1) * 65536 + byte(2) * 256 + byte(3)
      digit(k) == (b \div 64^(4 - k)) % 64
  IN [k \in 1 .. 4 |-> IF k <= Len(g) + 1 THEN Letter[digit(k)] ELSE "="]

Base64Encode(bytes) ==
  FlattenSeq([n \in 1 .. (Len(bytes) + 2) \div 3 |->
    EncodeGroup(SubSeq(bytes, 3 * n - 2, Min({3 * n, Len(bytes)})))])

\* The buffer keeps what it needs of its bits; a byte is given out once full.
TakeDigit(acc, d) ==
  LET buf  == (acc.buf * 64 + d) % 2^14
      bits == acc.bits + 6
  IN IF bits < 8 THEN [acc EXCEPT !.buf = buf, !.bits = bits]
     ELSE [buf |-> buf, bits |-> bits - 8,
           out |-> Append(acc.out, (buf \div 2^(bits - 8)) % 256)]

\* Decoding stops at the first padding and passes over what is no digit.
Base64Decode(t) ==
  LET end == Min({i \in 1 .. Len(t) + 1 : At(t, i) \in {"=", "eof"}})
      ds  == SelectSeq(SubSeq(t, 1, end - 1), LAMBDA c : c \in Range(Letter))
  IN FoldLeft(LAMBDA acc, c : TakeDigit(acc, CHOOSE n \in Digits : Letter[n] = c),
              [buf |-> 0, bits |-> 0, out |-> <<>>], ds).out

\* b64_decode_flexible()
DecodeFlexible(t) ==
  LET norm == [i \in DOMAIN SelectSeq(t, LAMBDA c : c \notin Blanks) |->
                 LET c == SelectSeq(t, LAMBDA x : x \notin Blanks)[i]
                 IN CASE c = "-" -> "+" [] c = "_" -> "/" [] OTHER -> c]
      over == Len(norm) % 4
  IN Base64Decode(norm \o [i \in 1 .. (IF over = 0 THEN 0 ELSE 4 - over) |-> "="])

----------------------------------------------------------------------------
\* Leases.

LeaseToJson(l) ==
  Obj(<<M("kid", Str(l.kid)), M("licenseKeyHash", Str(l.licenseKeyHash)),
        M("instanceId", Str(l.instanceId)),
        M("issuedAt", Num(l.issuedAt)), M("expiresAt", Num(l.expiresAt)),
        M("status", Str(l.status)),
        M("entitlements", Arr([i \in DOMAIN l.entitlements |-> Str(l.entitlements[i])])),
        M("signature", Str(l.signature))>>)

\* A lease needs a kid and a status.
LeaseFromJson(j) ==
  LET Text(k) == AsString(Member(j, k))
  IN IF Text("kid") = <<>> \/ Text("status") = <<>> THEN None
     ELSE [kid |-> Text("kid"), licenseKeyHash |-> Text("licenseKeyHash"),
           instanceId |-> Text("instanceId"),
           issuedAt  |-> AsInt(Member(j, "issuedAt")),
           expiresAt |-> AsInt(Member(j, "expiresAt")),
           status |-> Text("status"), signature |-> Text("signature"),
           entitlements |-> AsStringArray(Member(j, "entitlements"))]

\* The order of std::string.
CodeOf(c)    == CHOOSE n \in DOMAIN Ascii : Ascii[n] = c
Before(a, b) == \E n \in 0 .. Len(a) :
                  /\ n < Len(b) /\ SubSeq(a, 1, n) = SubSeq(b, 1, n)
                  /\ n = Len(a) \/ CodeOf(a[n + 1]) < CodeOf(b[n + 1])

Sorted(names) == SortSeq(names, Before)

PayloadOf(l, names) ==
  Bar(<<Chars("v3"), l.kid, l.licenseKeyHash, l.instanceId, Decimals(l.issuedAt),
        Decimals(l.expiresAt), l.status, Joined(names)>>)

\* Seeded fault: the entitlements are signed in the order they came.
CanonicalPayloadUnsorted(l) == PayloadOf(l, l.entitlements)

CanonicalPayload(l) == PayloadOf(l, Sorted(l.entitlements))

\* The ideal signature, and what ed25519_verify() makes of a text.
Signature(key, payload) == key \o <<":">> \o payload
Signed(key, payload, sig) == sig = Signature(key, payload)

\* Verifier::verify
Verify(keys, l, now) ==
  LET known == l.kid \in DOMAIN keys
  IN [expired  |-> now > l.expiresAt + Skew,
      kidKnown |-> known,
      trusted  |-> known /\ Signed(keys[l.kid], CanonicalPayload(l), l.signature)]

----------------------------------------------------------------------------
\* The published keys: entries without a kid or a key are passed over, of two
\* with one kid the last counts, and no keys at all are an error.
FetchKeyset(status, j) ==
  LET entries == SelectSeq(Items(Member(j, "keys")), LAMBDA e :
                   /\ AsString(Member(e, "kid")) # <<>>
                   /\ AsString(Member(e, "public_key")) # <<>>)
      Kid(i) == AsString(Member(entries[i], "kid"))
      last(k) == Max({i \in DOMAIN entries : Kid(i) = k})
  IN IF status # 200 \/ entries = <<>> THEN None
     ELSE [k \in {Kid(i) : i \in DOMAIN entries} |->
             AsString(Member(entries[last(k)], "public_key"))]

----------------------------------------------------------------------------
\* The server-owned settings.

ConfigPayload(kid, tenant, product, issued, expires, days, free) ==
  Bar(<<Chars("cfg1"), kid, tenant, product, Decimals(issued), Decimals(expires),
        Decimals(days), Chars(IF free THEN "true" ELSE "false")>>)

CarriesSettings(j) == Has(j, "trial_duration_days") \/ Has(j, "free_tier_enabled")

InWindow(j, now) ==
  LET issued == AsInt(Member(j, "issued_at"))
      expires == AsInt(Member(j, "expires_at"))
  IN /\ expires = 0 \/ now - Skew <= expires
     /\ issued = 0 \/ now + Skew >= issued

\* verify_config_(): without requireSignedConfig anything goes; with it, both
\* fields, a known kid, the window and a signature for this very product.
VerifyConfig(cfg, j, now) ==
  LET kid == AsString(Member(j, "kid"))
  IN \/ ~cfg.require
     \/ /\ Has(j, "trial_duration_days") /\ Has(j, "free_tier_enabled")
        /\ kid # <<>> /\ kid \in DOMAIN cfg.keys
        /\ InWindow(j, now)
        /\ Signed(cfg.keys[kid],
             ConfigPayload(kid, cfg.tenant, cfg.product,
               AsInt(Member(j, "issued_at")), AsInt(Member(j, "expires_at")),
               AsInt(Member(j, "trial_duration_days")),
               AsBool(Member(j, "free_tier_enabled"))),
             AsString(Member(j, "signature")))

\* apply_config_fields_(): a field that is absent is left as it was.
ApplyConfigFields(cfg, cache, j, now) ==
  IF ~CarriesSettings(j) \/ ~VerifyConfig(cfg, j, now) THEN cache
  ELSE [cache EXCEPT
          !.serverTrialDays = IF Has(j, "trial_duration_days")
                              THEN AsInt(Member(j, "trial_duration_days")) ELSE @,
          !.serverFreeTier  = IF Has(j, "free_tier_enabled")
                              THEN AsBool(Member(j, "free_tier_enabled")) ELSE @]

----------------------------------------------------------------------------
\* http_error_message_(): the server's reason, or None for the status line.
HttpErrorMessage(text) ==
  LET j == IF text = <<>> THEN Bad ELSE Parse(text)
      reasons == IF j = Bad THEN <<>>
                 ELSE SelectSeq(<<AsString(Member(j, "error")), AsString(Member(j, "message"))>>,
                                LAMBDA r : r # <<>>)
  IN IF reasons = <<>> THEN None ELSE Head(reasons)

----------------------------------------------------------------------------
\* The blob: what the cache lacks is not written, and zero or empty is read as
\* nothing, but for the settings, where zero and false are answers.

TextFields   == {"instanceId", "licenseKey", "freeTierInstanceId",
                 "cachedHardwareId", "keylessLastState"}
TimeFields   == {"expiresAt", "lastValidatedOnline", "trialStart", "lastKeylessPingAt"}
BlobOrder    == <<"lease", "expiresAt", "instanceId", "licenseKey",
                  "lastValidatedOnline", "trialStart", "freeTierInstanceId",
                  "cachedHardwareId", "keylessLastState", "lastKeylessPingAt",
                  "serverTrialDays", "serverFreeTier">>

FieldJson(c, f) == CASE f = "lease"            -> LeaseToJson(c.lease)
                     [] f \in TextFields       -> Str(c[f])
                     [] f = "serverFreeTier"   -> Bool(c[f])
                     [] OTHER                  -> Num(c[f])

BuildBlob(c) ==
  LET kept == SelectSeq(BlobOrder, LAMBDA f : c[f] # None)
  IN Obj([i \in DOMAIN kept |-> M(kept[i], FieldJson(c, kept[i]))])

\* Seeded fault: zero days of trial are read as no answer.
ServerDaysOfZero(j) == LET n == AsInt(Member(j, "serverTrialDays"))
                       IN IF n = 0 THEN None ELSE n

ServerDaysOf(j) == IF Has(j, "serverTrialDays")
                   THEN AsInt(Member(j, "serverTrialDays")) ELSE None

LoadBlob(j) ==
  LET Text(f) == IF AsString(Member(j, f)) = <<>> THEN None ELSE AsString(Member(j, f))
      Time(f) == IF AsInt(Member(j, f)) = 0 THEN None ELSE AsInt(Member(j, f))
  IN [f \in Range(BlobOrder) |->
        CASE f = "lease" -> IF SizeOf(Member(j, f)) = 0 THEN None
                            ELSE LeaseFromJson(Member(j, f))
          [] f \in TextFields -> Text(f)
          [] f \in TimeFields -> Time(f)
          [] f = "serverTrialDays" -> ServerDaysOf(j)
          [] f = "serverFreeTier"  ->
               IF Has(j, f) THEN AsBool(Member(j, f)) ELSE None]

----------------------------------------------------------------------------
\* A lease the server signed verifies with every key it publishes, through the
\* text of the reply and of the blob, in whatever order its entitlements come;
\* with another lease's signature no lease does.
LeasesVerify(leases, published) ==
  LET keys == FetchKeyset(200, published)
      Sign(l) == [l EXCEPT !.signature =
                    Signature(keys[l.kid], PayloadOf(l, Sorted(l.entitlements)))]
      Trusted(l) == Verify(keys, LeaseFromJson(Parse(Render(LeaseToJson(l)))), 0).trusted
  IN \A l, m \in leases :
       Trusted([m EXCEPT !.signature = Sign(l).signature])
         <=> [m EXCEPT !.entitlements = Sorted(@)] = [l EXCEPT !.entitlements = Sorted(@)]

\* Settings signed for one product, term and time count for these alone.
ConfigsVerify(cfgs, bodies, times) ==
  \A cfg \in cfgs, b \in bodies, now \in times :
    LET j == Obj(<<M("kid", Str(b.kid)), M("product", Str(b.product)),
                   M("issued_at", Num(b.issued)), M("expires_at", Num(b.expires)),
                   M("trial_duration_days", Num(b.days)),
                   M("free_tier_enabled", Bool(b.free)),
                   M("signature", Str(Signature(b.key, ConfigPayload(b.kid, b.tenant,
                       b.product, b.issued, b.expires, b.signedDays, b.free))))>>)
        before == [serverTrialDays |-> None, serverFreeTier |-> None]
        after  == ApplyConfigFields(cfg, before, j, now)
    IN after = IF \/ ~cfg.require
                  \/ /\ cfg.keys[b.kid] = b.key /\ b.days = b.signedDays
                     /\ <<b.tenant, b.product>> = <<cfg.tenant, cfg.product>>
                     /\ b.issued - Skew <= now
                     /\ now <= b.expires + Skew
               THEN [serverTrialDays |-> b.days, serverFreeTier |-> b.free] ELSE before

\* What a launch reads is what the last save wrote, field by field.
RelaunchReads(caches) ==
  \A c \in caches : LoadBlob(Parse(Render(BuildBlob(c)))) = c

\* Any spelling of base64 gives the bytes back.
Base64Returns(strings) ==
  \A s \in strings :
    LET t    == Base64Encode(s)
        bare == SelectSeq(t, LAMBDA c : c # "=")
        safe == [i \in DOMAIN bare |-> IF bare[i] \in DOMAIN UrlSafe
                                       THEN UrlSafe[bare[i]] ELSE bare[i]]
        wrapped == FlattenSeq([i \in DOMAIN t |-> <<t[i], "\n">>])
    IN /\ Base64Decode(t) = s
       /\ \A u \in {t, bare, safe, wrapped} : DecodeFlexible(u) = s

\* A reason the server gives is shown under either name, and nothing else is taken
\* for one: no number, no empty text, no reply that is cut short.
ReasonsAreShown(reasons) ==
  \A e, m \in reasons \cup {<<>>} :
    LET text == Render(Obj(<<M("status", Num(1)), M("message", Str(m)), M("error", Str(e))>>))
        cut  == SubSeq(text, 1, Len(text) - 1)
    IN /\ HttpErrorMessage(text) = (IF e # <<>> THEN e ELSE IF m # <<>> THEN m ELSE None)
       /\ HttpErrorMessage(cut) = None
       /\ HttpErrorMessage(Render(Obj(<<M("error", Num(1)), M("message", Str(m))>>)))
            = (IF m = <<>> THEN None ELSE m)
=============================================================================
