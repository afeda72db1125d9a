------------------------------ MODULE Request -------------------------------
(***************************************************************************)
(* What becomes of one HTTP request: the retry policy (retry.hpp), the     *)
(* loop around the transport (request_with_retry_) and what each of the    *)
(* three transports makes of what happened on the wire.                    *)
(*                                                                         *)
(* Header values are sequences of one-character strings.                   *)
(***************************************************************************)
EXTENDS Integers, Sequences, SequencesExt, FiniteSetsExt

CONSTANTS MaxAttempts,        \* RETRY_MAX_ATTEMPTS
          BaseMs, CapMs,      \* RETRY_BASE_MS, RETRY_CAP_MS
          MaxSleepMs, SecMs,  \* RETRY_MAX_SLEEP_MS, a second
          UintMax,            \* UINT64_MAX
          NoValue,            \* std::nullopt
          Headers,            \* the values of a Retry-After header
          Answers,            \* what a server may answer
          Hosts, Ports        \* what URLs are put together from

ASSUME RequestAssumption ==
  /\ MaxAttempts \in Nat \ {0} /\ BaseMs \in Nat \ {0} /\ SecMs \in Nat \ {0}
  /\ CapMs \in Nat /\ MaxSleepMs \in Nat /\ UintMax \in Nat
  /\ NoValue \notin Nat

Digits == <<"0", "1", "2", "3", "4", "5", "6", "7", "8", "9">>
Blank  == {" ", "\t"}

IsDigit(c) == \E i \in 1 .. 10 : Digits[i] = c
DigitOf(c) == (CHOOSE i \in 1 .. 10 : Digits[i] = c) - 1

\* The number that a sequence of digits denotes.
Number(s) == FoldLeft(LAMBDA n, c : 10 * n + DigitOf(c), 0, s)

\* What may be sent is text without a colon in the host and digits in the port; an
\* answer has a status and perhaps a header.
ASSUME InputAssumption ==
  /\ Headers \subseteq Seq(STRING) /\ NoValue \notin Headers
  /\ \A a \in Answers : /\ a = [kind |-> "answer", status |-> a.status, header |-> a.header]
                        /\ a.status \in Int /\ a.header \in Headers \cup {NoValue}
  /\ Hosts \subseteq Seq(STRING) /\ \A h \in Hosts : \A i \in 1 .. Len(h) : h[i] # ":"
  /\ Ports \subseteq Seq(STRING) \ {<<>>}
  /\ \A p \in Ports : \A i \in 1 .. Len(p) : IsDigit(p[i])

Lesser(a, b) == IF a < b THEN a ELSE b

----------------------------------------------------------------------------
\* x << n, for as far as backoff_ms() goes: no bit is lost.
Shifted(x, n) == FoldLeft(LAMBDA y, i : 2 * y, x, [i \in 1 .. n |-> i])

\* backoff_ms()
Backoff(attempt) ==
  IF attempt = 0 THEN BaseMs
  ELSE Lesser(CapMs, Shifted(BaseMs, Lesser(20, attempt - 1)))

\* status_retryable()
Retryable(status) == status \in {408, 429} \cup 500 .. 599

Trimmed(v) ==
  LET kept == {i \in 1 .. Len(v) : v[i] \notin Blank}
  IN IF kept = {} THEN <<>> ELSE SubSeq(v, Min(kept), Max(kept))

\* Seeded fault: the digit to be added is left out of the test for overflow.
AddDigitLate(out, c) ==
  IF out = NoValue \/ ~IsDigit(c) THEN NoValue
  ELSE IF out > UintMax \div 10 THEN NoValue
  ELSE (out * 10 + DigitOf(c)) % (UintMax + 1)

\* One round of the loop of parse_retry_after(), over 64 bits.
AddDigit(out, c) ==
  IF out = NoValue \/ ~IsDigit(c) THEN NoValue
  ELSE IF out > (UintMax - DigitOf(c)) \div 10 THEN NoValue
  ELSE (out * 10 + DigitOf(c)) % (UintMax + 1)

\* parse_retry_after(): the delay-seconds form only.
ParseRetryAfter(v) ==
  IF Trimmed(v) = <<>> THEN NoValue ELSE FoldLeft(AddDigit, 0, Trimmed(v))

\* retry_decide(): the delay before the next attempt, or NoValue for none.
Decide(status, attempt, retryAfter) ==
  IF attempt >= MaxAttempts \/ ~Retryable(status) THEN NoValue
  ELSE LET told == status = 429 /\ retryAfter # NoValue
           raw  == IF ~told THEN Backoff(attempt)
                   ELSE IF retryAfter > MaxSleepMs \div SecMs THEN MaxSleepMs
                   ELSE retryAfter * SecMs
       IN Lesser(raw, MaxSleepMs)

----------------------------------------------------------------------------
\* What the wire does with one attempt: an answer with its Retry-After header
\* (or none), or no answer (refused, timed out, malformed URL).
Lost == [kind |-> "lost"]
Answer(status, header) == [kind |-> "answer", status |-> status, header |-> header]

Failed == [ok |-> FALSE]
Response(status, header) == [ok |-> TRUE, status |-> status, header |-> header]

\* HttplibTransport::request(): all headers are copied, their names lowercased.
Httplib(w) == IF w = Lost THEN Failed ELSE Response(w.status, w.header)

\* JuceUrlTransport::request() and FHttpTransport::request() copy none.
JuceUrl(w) == IF w = Lost THEN Failed ELSE Response(w.status, NoValue)
FHttp(w)   == IF w = Lost THEN Failed ELSE Response(w.status, NoValue)

\* The status the policy is asked about: no answer counts as a 503.
PolicyStatus(r) == IF r.ok THEN r.status ELSE 503

RetryAfterOf(r) ==
  IF ~r.ok THEN NoValue
  ELSE IF r.header = NoValue THEN NoValue ELSE ParseRetryAfter(r.header)

\* The delay that request_with_retry_() sleeps after its attempt'th result.
DelayAfter(r, attempt) == Decide(PolicyStatus(r), attempt, RetryAfterOf(r))

\* request_with_retry_() over what the transport made of each attempt: what it
\* returns and how long it slept.
RequestWithRetry(results) ==
  LET stops(i) == DelayAfter(results[i], i) = NoValue
      last     == Min({i \in 1 .. MaxAttempts : stops(i)})
  IN [result |-> results[last], attempts |-> last,
      sleeps |-> [i \in 1 .. last - 1 |-> DelayAfter(results[i], i)]]

----------------------------------------------------------------------------
\* detail::parse_url(), the authority: host and port at the last colon, or the
\* whole of it and the scheme's port where no number follows.
LeadingDigits(s) ==
  LET n == CHOOSE k \in 0 .. Len(s) : /\ \A i \in 1 .. k : IsDigit(s[i])
                                      /\ k < Len(s) => ~IsDigit(s[k + 1])
  IN SubSeq(s, 1, n)

ParseAuthority(a, default) ==
  LET colons == {i \in 1 .. Len(a) : a[i] = ":"}
      port   == LeadingDigits(SubSeq(a, Max(colons) + 1, Len(a)))
  IN IF colons = {} THEN [host |-> a, port |-> default]
     ELSE IF port = <<>> THEN [host |-> a, port |-> default]
     ELSE [host |-> SubSeq(a, 1, Max(colons) - 1),
           port |-> Number(port)]

----------------------------------------------------------------------------
(* What is required of it. *)

\* Where a header has its digits, if it is nothing but digits between blanks.
Spans(h) ==
  {ij \in (1 .. Len(h)) \X (1 .. Len(h)) :
     /\ ij[1] <= ij[2]
     /\ \A k \in 1 .. Len(h) : IF k \in ij[1] .. ij[2] THEN IsDigit(h[k]) ELSE h[k] \in Blank}

\* The number it denotes, as a set of at most one: 64 bits must hold it.
Worth(h) == {n \in {Number(SubSeq(h, ij[1], ij[2])) : ij \in Spans(h)} : n <= UintMax}

\* parse_retry_after() reads the number between the blanks, every number that
\* 64 bits hold and no other: nothing wraps.
RetryAfterIsExact ==
  \A h \in Headers :
    {ParseRetryAfter(h)} = IF Worth(h) = {} THEN {NoValue} ELSE Worth(h)

\* request_with_retry_() answers with the first result that is final or the last
\* one it may ask for, sleeps only between attempts and never above the ceiling,
\* and heeds a 429's Retry-After when the transport hands it over.
RetryIsBounded ==
  \A w \in [1 .. MaxAttempts -> {Lost} \cup Answers] :
    LET run == RequestWithRetry([i \in 1 .. MaxAttempts |-> Httplib(w[i])])
        final(i)  == w[i] # Lost /\ ~Retryable(w[i].status)
        asked(i)  == IF w[i] = Lost THEN {}
                     ELSE IF w[i].status # 429 \/ w[i].header = NoValue THEN {}
                     ELSE Worth(w[i].header)
    IN /\ run.attempts \in 1 .. MaxAttempts
       /\ \A i \in 1 .. run.attempts - 1 : ~final(i)
       /\ run.attempts < MaxAttempts => final(run.attempts)
       /\ run.result = Httplib(w[run.attempts])
       /\ DOMAIN run.sleeps = 1 .. run.attempts - 1
       /\ \A i \in 1 .. run.attempts - 1 :
            /\ run.sleeps[i] \in 0 .. MaxSleepMs
            /\ \A n \in asked(i) : run.sleeps[i] = Lesser(MaxSleepMs, n * SecMs)

\* parse_url() takes an authority apart where it was put together.
AuthorityIsSplit ==
  \A h \in Hosts :
    /\ ParseAuthority(h, 443) = [host |-> h, port |-> 443]
    /\ \A p \in Ports :
         ParseAuthority(h \o <<":">> \o p, 443) = [host |-> h, port |-> Number(p)]

=============================================================================
