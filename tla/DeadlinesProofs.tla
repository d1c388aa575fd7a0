--------------------------- MODULE DeadlinesProofs --------------------------
(***************************************************************************)
(* What the workers decide by time, proved for any number of workers and   *)
(* envelopes, any lag, lease, timeout, grace and backoff: no clock runs    *)
(* ahead, an attempt in its time has its key to itself, an envelope that   *)
(* expired unseen never holds the key, and no retry is moved early.        *)
(***************************************************************************)
EXTENDS Deadlines, WellFoundedInduction, TLAPS

\* The fields of a clock, and an anchor that is behind Redis by a reply at most.
ClockSound(w) ==
    /\ clock[w] \in [up : BOOLEAN, anchor : Int \cup {None}, base : Nat,
                     time : Nat \cup {None}, tick : Nat]
    /\ Anchored(w) => /\ clock[w].base <= now
                      /\ clock[w].anchor <= clock[w].base
                      /\ clock[w].anchor >= clock[w].base - Lag
    /\ clock[w].time # None => clock[w].time <= now /\ now <= clock[w].time + Lag

ClockInv ==
    /\ now \in Nat
    /\ DOMAIN clock = Workers
    /\ \A w \in Workers : ClockSound(w)

\* An envelope keeps its fields; what its times are is said where they matter.
Rec(S) == [at : S, by : S, got : S, since : S, deadline : S, retries : S, fire_at : S, sane : S,
           open : S, let : S]

Shape(r) == \E S : r \in Rec(S)

EnvInv ==
    /\ DOMAIN env = Envelopes
    /\ \A e \in Envelopes : Shape(env[e]) /\ env[e].since \in Nat
    /\ key \in [holder : Envelopes \cup {None}, until : Nat]

\* A claim that did not fail open holds the key until the timeout of its attempt is over.
Leased(e) ==
    ~env[e].open =>
        /\ env[e].at = "claimed" =>
              /\ key.holder = e
              /\ key.until >= env[e].since + Timeout + Grace
              /\ now <= env[e].since + Wait
        /\ env[e].at = "run" /\ now <= env[e].since + Timeout =>
              /\ key.holder = e
              /\ key.until >= env[e].since + Timeout + Grace - Wait

LeaseInv == Wait < Grace => \A e \in Envelopes : Leased(e)

\* Whoever holds the key has passed the gates.
HolderLet == \A e \in Envelopes : key.holder = e => env[e].let = TRUE

\* The least a backoff can be, before the jitter.
LeastBackoff == Min({BackoffBase, BackoffMax, MaxDelay})

\* An attempt has its worker, and an envelope that a sound clock has put off is dated half a
\* backoff from then at least.
DelayInv ==
    \A e \in Envelopes :
        /\ env[e].retries \in Nat
        /\ env[e].at \in {"held", "claimed", "run"} => env[e].by \in Workers
        /\ env[e].at = "delayed" /\ env[e].sane = TRUE =>
              /\ env[e].fire_at \in Int
              /\ env[e].fire_at >= env[e].since + LeastBackoff \div 2 - Lag

IInv == ClockInv /\ EnvInv /\ LeaseInv /\ HolderLet /\ DelayInv

-----------------------------------------------------------------------------
(* Facts about the operators *)

\* The larger of two numbers.
LEMMA MaxOfTwo ==
    ASSUME NEW a \in Int, NEW b \in Int
    PROVE  Max({a, b}) = IF a >= b THEN a ELSE b
  BY DEF Max

\* claim_ttl_s covers the timeout and the grace.
LEMMA ClaimTtlCovers == ClaimTtl \in Nat /\ ClaimTtl >= Timeout + Grace
  <1>1. IdempTtl \in Int /\ Timeout + Grace \in Int /\ IdempTtl \in Nat /\ Timeout \in Nat /\ Grace \in Nat
    BY DeadlinesAssumption
  <1>2. ClaimTtl = IF IdempTtl >= Timeout + Grace THEN IdempTtl ELSE Timeout + Grace
    BY <1>1, MaxOfTwo DEF ClaimTtl
  <1> QED BY <1>1, <1>2

\* An anchored clock is between Redis time and a reply behind it (clock::now_ms).
LEMMA NowBehind ==
    ASSUME now \in Nat, NEW w, ClockSound(w), Anchored(w)
    PROVE  NowMs(w) \in Max({0, now - Lag}) .. now
  <1>1. /\ Lag \in Nat /\ clock[w].anchor \in Int /\ clock[w].base \in Nat
        /\ clock[w].base <= now /\ clock[w].anchor <= clock[w].base
        /\ clock[w].anchor >= clock[w].base - Lag
    BY DeadlinesAssumption DEF ClockSound, Anchored
  <1> DEFINE x == clock[w].anchor + (now - clock[w].base)
  <1>2. x \in Int /\ x <= now /\ x >= now - Lag
    BY <1>1
  <1>3. NowMs(w) = Max({0, x})
    BY DEF NowMs
  <1> HIDE DEF x
  <1>4. NowMs(w) = IF 0 >= x THEN 0 ELSE x
    BY <1>2, <1>3, MaxOfTwo
  <1>5. Max({0, now - Lag}) = IF 0 >= now - Lag THEN 0 ELSE now - Lag
    BY <1>1, MaxOfTwo
  <1> QED BY <1>1, <1>2, <1>4, <1>5

-----------------------------------------------------------------------------
(* Clocks *)

\* The clocks under every step.
LEMMA NextClocks == ClockInv /\ [Next]_vars => ClockInv'
  <1> SUFFICES ASSUME ClockInv, [Next]_vars PROVE ClockInv'
    OBVIOUS
  <1> DEFINE C == [up : BOOLEAN, anchor : Int \cup {None}, base : Nat,
                   time : Nat \cup {None}, tick : Nat]
  <1>1. Lag \in Nat /\ Period \in Nat /\ None \notin Int /\ now \in Nat
    BY DeadlinesAssumption DEF ClockInv
  <1>2. ASSUME NEW w \in Workers, NEW r \in C, now' = now, clock' = [clock EXCEPT ![w] = r],
               r.anchor # None => /\ r.base <= now /\ r.anchor <= r.base
                                  /\ r.anchor >= r.base - Lag,
               r.time # None => r.time <= now /\ now <= r.time + Lag
        PROVE  ClockInv'
    <2>1. clock'[w] = r /\ \A u \in Workers : u # w => clock'[u] = clock[u]
      BY <1>2 DEF ClockInv
    <2>2. ClockSound(w)'
      BY <1>2, <2>1 DEF ClockSound, Anchored
    <2>3. \A u \in Workers : u # w => ClockSound(u)'
      BY <1>2, <2>1 DEF ClockInv, ClockSound, Anchored
    <2> QED BY <1>2, <2>2, <2>3 DEF ClockInv
  <1>3. ASSUME NEW w \in Workers, Sample(w) PROVE ClockInv'
    <2> DEFINE r == [clock[w] EXCEPT !.time = now, !.tick = now + Period]
    <2>1. ClockSound(w) /\ clock[w] \in C
      BY DEF ClockInv, ClockSound
    <2>2. now' = now /\ clock' = [clock EXCEPT ![w] = r]
      BY <1>3 DEF Sample
    <2>3. r \in C
      <3>1. now \in Nat \cup {None} /\ now + Period \in Nat
        BY <1>1
      <3> QED BY <2>1, <3>1
    <2>4. r.anchor = clock[w].anchor /\ r.base = clock[w].base /\ r.time = now
      BY <2>1
    <2> HIDE DEF r
    <2>5. r.anchor # None => /\ r.base <= now /\ r.anchor <= r.base /\ r.anchor >= r.base - Lag
      BY <2>1, <2>4 DEF ClockSound, Anchored
    <2>6. r.time <= now /\ now <= r.time + Lag
      BY <1>1, <2>4
    <2> QED BY <1>2, <2>2, <2>3, <2>5, <2>6
  <1>4. ASSUME NEW w \in Workers, SampleReply(w) PROVE ClockInv'
    <2> DEFINE r == [Record(w, clock[w].time) EXCEPT !.up = TRUE, !.time = None]
               t == clock[w].time
    <2>1. ClockSound(w) /\ clock[w] \in C /\ t \in Nat /\ t <= now /\ now <= t + Lag
      BY <1>4 DEF ClockInv, ClockSound, SampleReply
    <2>2. now' = now /\ clock' = [clock EXCEPT ![w] = r]
      BY <1>4 DEF SampleReply
    <2>3. CASE Anchored(w)
      <3>1. t - (now - clock[w].base) \in Int
        BY <1>1, <2>1
      <3>2. Record(w, t) = [clock[w] EXCEPT !.anchor = t - (now - clock[w].base)]
        BY <2>3 DEF Record
      <3>3. r \in C /\ r.anchor = t - (now - clock[w].base) /\ r.base = clock[w].base /\ r.time = None
        BY <2>1, <3>1, <3>2
      <3>4. /\ r.base <= now /\ r.anchor <= r.base /\ r.anchor >= r.base - Lag
        <4>1. clock[w].base \in Nat /\ clock[w].base <= now
          BY <2>1, <2>3 DEF ClockSound
        <4> QED BY <1>1, <2>1, <3>3, <4>1
      <3> HIDE DEF r
      <3> QED BY <1>2, <2>2, <3>3, <3>4
    <2>4. CASE ~Anchored(w)
      <3>1. Record(w, t) = [clock[w] EXCEPT !.anchor = t, !.base = now]
        BY <2>4 DEF Record
      <3>2. r \in C /\ r.anchor = t /\ r.base = now /\ r.time = None
        <4>1. t \in Int \cup {None} /\ now \in Nat
          BY <1>1, <2>1
        <4> HIDE DEF t
        <4> QED BY <2>1, <3>1, <4>1 DEF t
      <3>3. /\ r.base <= now /\ r.anchor <= r.base /\ r.anchor >= r.base - Lag
        BY <1>1, <2>1, <3>2
      <3> HIDE DEF r
      <3> QED BY <1>2, <2>2, <3>2, <3>3
    <2> QED BY <2>3, <2>4
  <1>5. ASSUME NEW w \in Workers, SampleFails(w) PROVE ClockInv'
    <2> DEFINE r == [clock[w] EXCEPT !.up = TRUE, !.time = None]
    <2>1. ClockSound(w) /\ clock[w] \in C
      BY DEF ClockInv, ClockSound
    <2>2. now' = now /\ clock' = [clock EXCEPT ![w] = r]
      BY <1>5 DEF SampleFails
    <2>3. r \in C /\ r.anchor = clock[w].anchor /\ r.base = clock[w].base /\ r.time = None
      BY <2>1
    <2> HIDE DEF r
    <2> QED BY <1>1, <1>2, <2>1, <2>2, <2>3 DEF ClockSound, Anchored
  <1>6. ASSUME NEW w \in Workers, Crash(w) PROVE ClockInv'
    <2>1. now' = now /\ clock' = [clock EXCEPT ![w] = NewClock]
      BY <1>6 DEF Crash
    <2>2. NewClock \in C /\ NewClock.anchor = None /\ NewClock.time = None
      BY DEF NewClock
    <2> QED BY <1>2, <2>1, <2>2
  <1>7. CASE UNCHANGED <<now, clock>>
    BY <1>7 DEF ClockInv, ClockSound, Anchored
  <1>8. ASSUME NEW e \in Envelopes, NEW w \in Workers, Hand(e, w) PROVE ClockInv'
    BY <1>7, <1>8 DEF Hand, Deliver, Move, Reclaim
  <1>9. ASSUME NEW e \in Envelopes, Enqueue(e) \/ Gates(e) \/ Attempt(e) PROVE ClockInv'
    BY <1>7, <1>9 DEF Gates, Expire, Claim, ClaimFails, Attempt, Enqueue, Start, Succeed, Retry,
                      FinalFailure
  <1>10. CASE Tick
    <2>1. now' = now + 1 /\ clock' = clock
      BY <1>10 DEF Tick
    <2>2. ASSUME NEW w \in Workers PROVE ClockSound(w)'
      <3>1. ClockSound(w) /\ (clock[w].time # None => now < clock[w].time + Lag)
        BY <1>10 DEF Tick, ClockInv
      <3> QED BY <1>1, <2>1, <3>1 DEF ClockSound, Anchored
    <2> QED BY <1>1, <2>1, <2>2 DEF ClockInv
  <1>11. CASE UNCHANGED vars
    BY <1>7, <1>11 DEF vars
  <1> QED BY <1>3, <1>4, <1>5, <1>6, <1>8, <1>9, <1>10, <1>11 DEF Next, Sampler

-----------------------------------------------------------------------------
(* Envelopes and the key *)

\* IDEMP_CLAIM_LUA gives a key that is free or already one's own, and no other.
LEMMA ClaimEffect ==
    ASSUME now \in Nat, EnvInv, NEW e \in Envelopes
    PROVE  /\ IdempClaim(e) \in [holder : Envelopes \cup {None}, until : Nat]
           /\ \A f \in Envelopes : f # e /\ key.holder = f => IdempClaim(e) = key
           /\ \A f \in Envelopes : IdempClaim(e).holder = f => f = e \/ key.holder = f
           /\ IdempClaim(e).holder = e => IdempClaim(e).until >= now + Timeout + Grace
  <1>1. /\ ClaimTtl \in Nat /\ ClaimTtl >= Timeout + Grace /\ now + ClaimTtl \in Nat
        /\ Timeout \in Nat /\ Grace \in Nat /\ None \notin Envelopes
    BY ClaimTtlCovers, DeadlinesAssumption
  <1>2. key \in [holder : Envelopes \cup {None}, until : Nat]
    BY DEF EnvInv
  <1>3. CASE Free \/ key.holder = e
    <2>1. IdempClaim(e) = [holder |-> e, until |-> now + ClaimTtl]
      BY <1>3 DEF IdempClaim
    <2>2. \A f \in Envelopes : f # e => key.holder # f
      BY <1>1, <1>3 DEF Free
    <2> QED BY <1>1, <2>1, <2>2
  <1>4. CASE ~(Free \/ key.holder = e)
    <2>1. IdempClaim(e) = key
      BY <1>4 DEF IdempClaim
    <2> QED BY <1>2, <1>4, <2>1
  <1> QED BY <1>3, <1>4

\* A step that changes one envelope and leaves time, and the key of every other, alone.
LEMMA PutKeeps ==
    ASSUME now \in Nat, now' = now, EnvInv, LeaseInv, HolderLet,
           NEW e \in Envelopes, NEW r, Put(e, r), Shape(r), r.since \in Nat,
           key' \in [holder : Envelopes \cup {None}, until : Nat],
           \A f \in Envelopes : f # e /\ key.holder = f => key' = key,
           \A f \in Envelopes : f # e /\ key'.holder = f => key.holder = f,
           key'.holder = e => r.let = TRUE,
           Wait < Grace /\ r.at \in {"claimed", "run"} => Leased(e)'
    PROVE  (EnvInv /\ LeaseInv /\ HolderLet)'
  <1>1. env' = [env EXCEPT ![e] = r] /\ DOMAIN env = Envelopes
    BY DEF Put, EnvInv
  <1>2. env'[e] = r /\ DOMAIN env' = Envelopes /\ \A f \in Envelopes : f # e => env'[f] = env[f]
    BY <1>1
  <1>3. EnvInv'
    BY <1>2 DEF EnvInv
  <1>4. HolderLet'
    BY <1>2 DEF HolderLet
  <1>5. LeaseInv'
    <2> SUFFICES ASSUME Wait < Grace, NEW f \in Envelopes PROVE Leased(f)'
      BY DEF LeaseInv
    <2>1. CASE f = e
      BY <1>2, <2>1 DEF Leased
    <2>2. CASE f # e
      <3>1. Leased(f) /\ env'[f] = env[f]
        BY <1>2, <2>2 DEF LeaseInv
      <3>2. CASE key.holder = f
        BY <2>2, <3>1, <3>2 DEF Leased
      <3>3. CASE key.holder # f
        BY <3>1, <3>3 DEF Leased
      <3> QED BY <3>2, <3>3
    <2> QED BY <2>1, <2>2
  <1> QED BY <1>3, <1>4, <1>5

\* The envelopes, the key and the lease under every step.
LEMMA NextEnvelopes ==
    ClockInv /\ EnvInv /\ LeaseInv /\ HolderLet /\ [Next]_vars => (EnvInv /\ LeaseInv /\ HolderLet)'
  <1> SUFFICES ASSUME ClockInv, EnvInv, LeaseInv, HolderLet, [Next]_vars
               PROVE  (EnvInv /\ LeaseInv /\ HolderLet)'
    OBVIOUS
  <1>1. /\ now \in Nat /\ key \in [holder : Envelopes \cup {None}, until : Nat]
        /\ Wait \in Nat /\ Grace \in Nat /\ Timeout \in Nat
    BY DeadlinesAssumption DEF ClockInv, EnvInv
  <1>2. \A e \in Envelopes : Shape(env[e]) /\ env[e].since \in Nat
    BY DEF EnvInv
  \* A step that neither claims nor runs the envelope, and keeps the key.
  <1>3. ASSUME NEW e \in Envelopes, NEW r, Put(e, r), Shape(r), r.since \in Nat,
               r.at \notin {"claimed", "run"}, r.let = env[e].let, now' = now, key' = key
        PROVE  (EnvInv /\ LeaseInv /\ HolderLet)'
    <2>1. key'.holder = e => r.let = TRUE
      BY <1>3 DEF HolderLet
    <2> QED BY <1>1, <1>3, <2>1, PutKeeps
  \* A step that settles an envelope.
  <1>4. ASSUME NEW e \in Envelopes, NEW how
        PROVE  /\ Shape(Settled(e, how)) /\ Settled(e, how).at = how
               /\ Settled(e, how).since = 0 /\ Settled(e, how).let = env[e].let
    <2> DEFINE S == {how, "new", None, 0, TRUE, FALSE, env[e].let}
               r == Settled(e, how)
    <2>1. NewEnvelope \in Rec(S) /\ NewEnvelope.since = 0
      BY DEF Rec, NewEnvelope
    <2>2. r \in Rec(S)
      BY <2>1 DEF Rec, Settled
    <2>3. r.at = how /\ r.since = 0 /\ r.let = env[e].let
      BY <2>1 DEF Rec, Settled
    <2> QED BY <2>2, <2>3 DEF Shape
  <1>5. ASSUME NEW e \in Envelopes, Enqueue(e) PROVE (EnvInv /\ LeaseInv /\ HolderLet)'
    <2> DEFINE d == ExpiryDeadline(e)
               r == [env[e] EXCEPT !.at = "queued", !.deadline = d]
    <2>1. Shape(r) /\ r.since = env[e].since /\ r.let = env[e].let /\ r.at = "queued"
      <3>1. PICK S : env[e] \in Rec(S)
        BY <1>2 DEF Shape
      <3> HIDE DEF d
      <3>2. r \in Rec(S \cup {"queued", d})
        BY <3>1 DEF Rec
      <3>3. r.since = env[e].since /\ r.let = env[e].let /\ r.at = "queued"
        BY <3>1 DEF Rec
      <3> QED BY <3>2, <3>3 DEF Shape
    <2>2. Put(e, r) /\ now' = now /\ key' = key
      BY <1>5 DEF Enqueue
    <2> HIDE DEF r
    <2> QED BY <1>2, <1>3, <2>1, <2>2
  <1>6. ASSUME NEW e \in Envelopes, Expire(e)
        PROVE  (EnvInv /\ LeaseInv /\ HolderLet)'
    <2>1. Put(e, Settled(e, "expired")) /\ now' = now /\ key' = key
      BY <1>6 DEF Expire
    <2>2. Settled(e, "expired").since \in Nat
      BY <1>4
    <2> QED BY <1>3, <1>4, <2>1, <2>2
  \* What an envelope that has passed the gates looks like.
  <1>8. ASSUME NEW e \in Envelopes
        PROVE  /\ Shape(Claimed(e)) /\ Claimed(e).at = "claimed"
               /\ Claimed(e).since = now /\ Claimed(e).let = TRUE
    <2>1. PICK S : env[e] \in Rec(S)
      BY <1>2 DEF Shape
    <2>2. Claimed(e) \in Rec(S \cup {"claimed", now, TRUE})
      BY <2>1 DEF Claimed, Rec
    <2>3. Claimed(e).at = "claimed" /\ Claimed(e).since = now /\ Claimed(e).let = TRUE
      BY <2>1 DEF Claimed, Rec
    <2> QED BY <2>2, <2>3 DEF Shape
  <1>9. ASSUME NEW e \in Envelopes, Claim(e)
        PROVE  (EnvInv /\ LeaseInv /\ HolderLet)'
    <2>1. key' = IdempClaim(e) /\ now' = now
      BY <1>9 DEF Claim
    <2>2. /\ key' \in [holder : Envelopes \cup {None}, until : Nat]
          /\ \A f \in Envelopes : f # e /\ key.holder = f => key' = key
          /\ \A f \in Envelopes : f # e /\ key'.holder = f => key.holder = f
          /\ key'.holder = e => key'.until >= now + Timeout + Grace
      BY <1>1, <2>1, ClaimEffect
    <2>3. CASE key'.holder = e
      <3> DEFINE r == Claimed(e)
      <3>1. Put(e, r)
        BY <1>9, <2>3 DEF Claim
      <3>2. Shape(r) /\ r.at = "claimed" /\ r.since = now /\ r.let = TRUE
        BY <1>8
      <3> HIDE DEF r
      <3>3. env'[e] = r
        BY <3>1 DEF Put, EnvInv
      <3>4. Leased(e)'
        BY <1>1, <2>1, <2>2, <2>3, <3>2, <3>3 DEF Leased
      <3> QED BY <1>1, <2>1, <2>2, <3>1, <3>2, <3>4, PutKeeps
    <2>4. CASE key'.holder # e
      <3>1. Put(e, Settled(e, "duplicate"))
        BY <1>9, <2>4 DEF Claim
      <3>2. Settled(e, "duplicate").since \in Nat /\ Settled(e, "duplicate").at = "duplicate"
        BY <1>4
      <3> QED BY <1>1, <1>4, <2>1, <2>2, <2>4, <3>1, <3>2, PutKeeps
    <2> QED BY <2>3, <2>4
  <1>10. ASSUME NEW e \in Envelopes, ClaimFails(e)
         PROVE  (EnvInv /\ LeaseInv /\ HolderLet)'
    <2> DEFINE r == [Claimed(e) EXCEPT !.open = TRUE]
    <2>1. key' \in {key, IdempClaim(e)} /\ now' = now /\ Put(e, r)
      BY <1>10 DEF ClaimFails
    <2>2. /\ key' \in [holder : Envelopes \cup {None}, until : Nat]
          /\ \A f \in Envelopes : f # e /\ key.holder = f => key' = key
          /\ \A f \in Envelopes : f # e /\ key'.holder = f => key.holder = f
      BY <1>1, <2>1, ClaimEffect
    <2>3. Shape(r) /\ r.at = "claimed" /\ r.since = now /\ r.let = TRUE /\ r.open = TRUE
      <3>1. PICK S : env[e] \in Rec(S)
        BY <1>2 DEF Shape
      <3>2. r \in Rec(S \cup {"claimed", now, TRUE})
        BY <3>1 DEF Claimed, Rec
      <3>3. r.at = "claimed" /\ r.since = now /\ r.let = TRUE /\ r.open = TRUE
        BY <3>1 DEF Claimed, Rec
      <3> QED BY <3>2, <3>3 DEF Shape
    <2> HIDE DEF r
    <2>4. Leased(e)'
      <3>1. env'[e] = r
        BY <2>1 DEF Put, EnvInv
      <3> QED BY <2>3, <3>1 DEF Leased
    <2> QED BY <1>1, <2>1, <2>2, <2>3, <2>4, PutKeeps
  <1>11. ASSUME NEW e \in Envelopes, Start(e) PROVE (EnvInv /\ LeaseInv /\ HolderLet)'
    <2> DEFINE r == [env[e] EXCEPT !.at = "run", !.since = now]
    <2>1. Put(e, r) /\ now' = now /\ key' = key /\ env[e].at = "claimed"
      BY <1>11 DEF Start
    <2>2. Shape(r) /\ r.at = "run" /\ r.since = now /\ r.let = env[e].let /\ r.open = env[e].open
      <3>1. PICK S : env[e] \in Rec(S)
        BY <1>2 DEF Shape
      <3>2. r \in Rec(S \cup {"run", now})
        BY <3>1 DEF Rec
      <3>3. r.at = "run" /\ r.since = now /\ r.let = env[e].let /\ r.open = env[e].open
        BY <3>1 DEF Rec
      <3> QED BY <3>2, <3>3 DEF Shape
    <2> HIDE DEF r
    <2>3. env'[e] = r
      BY <2>1 DEF Put, EnvInv
    <2>4. Wait < Grace => Leased(e)'
      <3> SUFFICES ASSUME Wait < Grace, ~env[e].open PROVE Leased(e)'
        BY <2>2, <2>3 DEF Leased
      <3>1. /\ key.holder = e /\ key.until >= env[e].since + Timeout + Grace
            /\ now <= env[e].since + Wait
        BY <2>1 DEF LeaseInv, Leased
      <3>2. key.until \in Nat /\ env[e].since \in Nat
        BY <1>1, <1>2
      <3>3. key.until >= now + Timeout + Grace - Wait
        BY <1>1, <3>1, <3>2
      <3> QED BY <2>1, <2>2, <2>3, <3>1, <3>3 DEF Leased
    <2>5. key'.holder = e => r.let = TRUE
      BY <2>1, <2>2 DEF HolderLet
    <2> QED BY <1>1, <2>1, <2>2, <2>4, <2>5, PutKeeps
  <1>12. ASSUME NEW e \in Envelopes, Succeed(e) \/ FinalFailure(e)
         PROVE  (EnvInv /\ LeaseInv /\ HolderLet)'
    <2>1. PICK how \in {"done", "dlq"} : Put(e, Settled(e, how)) /\ now' = now /\ key' = key
      BY <1>12 DEF Succeed, FinalFailure
    <2>2. Settled(e, how).since \in Nat
      BY <1>4
    <2>3. Settled(e, how).at \notin {"claimed", "run"}
      BY <1>4, <2>1
    <2> QED BY <1>3, <1>4, <2>1, <2>2, <2>3
  <1>13. ASSUME NEW e \in Envelopes, Retry(e) PROVE (EnvInv /\ LeaseInv /\ HolderLet)'
    <2> DEFINE w == env[e].by
               n == env[e].retries + 1
    <2>1. PICK c \in Countdowns \cup {None} : \E d \in RetryDelays(c, n) :
            Put(e, [env[e] EXCEPT !.at = "delayed", !.since = now, !.retries = n,
                                  !.fire_at = NowMs(w) + d, !.sane = Anchored(w) /\ c = None])
      BY <1>13 DEF Retry
    <2>2. PICK d \in RetryDelays(c, n) :
            Put(e, [env[e] EXCEPT !.at = "delayed", !.since = now, !.retries = n,
                                  !.fire_at = NowMs(w) + d, !.sane = Anchored(w) /\ c = None])
      BY <2>1
    <2> DEFINE x == NowMs(w) + d
               y == (Anchored(w) /\ c = None)
               r == [env[e] EXCEPT !.at = "delayed", !.since = now, !.retries = n,
                                   !.fire_at = x, !.sane = y]
    <2>3. Shape(r) /\ r.at = "delayed" /\ r.since = now /\ r.let = env[e].let
      <3>1. PICK S : env[e] \in Rec(S)
        BY <1>2 DEF Shape
      <3> HIDE DEF x, y, n
      <3>2. r \in Rec(S \cup {"delayed", now, n, x, y})
        BY <3>1 DEF Rec
      <3>3. r.at = "delayed" /\ r.since = now /\ r.let = env[e].let
        BY <3>1 DEF Rec
      <3> QED BY <3>2, <3>3 DEF Shape
    <2>4. Put(e, r) /\ now' = now /\ key' = key
      BY <1>13, <2>2 DEF Retry
    <2> HIDE DEF r
    <2> QED BY <1>1, <1>3, <2>3, <2>4
  <1>20. ASSUME NEW e \in Envelopes, NEW w \in Workers, Deliver(e, w) \/ Reclaim(e, w)
         PROVE  (EnvInv /\ LeaseInv /\ HolderLet)'
    <2>1. Put(e, Held(e, w)) /\ now' = now /\ key' = key
      BY <1>20 DEF Deliver, Reclaim
    <2>2. Shape(Held(e, w)) /\ Held(e, w).at = "held" /\ Held(e, w).since = 0
          /\ Held(e, w).let = env[e].let
      <3>1. PICK S : env[e] \in Rec(S)
        BY <1>2 DEF Shape
      <3>2. Held(e, w) \in Rec(S \cup {"held", w, now, 0, FALSE})
        BY <3>1 DEF Rec, Held
      <3>3. Held(e, w).at = "held" /\ Held(e, w).since = 0 /\ Held(e, w).let = env[e].let
        BY <3>1 DEF Rec, Held
      <3> QED BY <3>2, <3>3 DEF Shape
    <2> QED BY <1>3, <2>1, <2>2
  <1>14. ASSUME NEW e \in Envelopes, NEW w \in Workers, Move(e, w)
         PROVE  (EnvInv /\ LeaseInv /\ HolderLet)'
    <2>1. Put(e, Queued(e)) /\ now' = now /\ key' = key
      BY <1>14 DEF Move
    <2>2. Shape(Queued(e)) /\ Queued(e).at = "queued" /\ Queued(e).since = 0
          /\ Queued(e).let = env[e].let
      <3>1. PICK S : env[e] \in Rec(S)
        BY <1>2 DEF Shape
      <3>2. Queued(e) \in Rec(S \cup {"queued", None, 0, TRUE, FALSE})
        BY <3>1 DEF Rec, Queued
      <3>3. Queued(e).at = "queued" /\ Queued(e).since = 0 /\ Queued(e).let = env[e].let
        BY <3>1 DEF Rec, Queued
      <3> QED BY <3>2, <3>3 DEF Shape
    <2> QED BY <1>3, <2>1, <2>2
  <1>15. ASSUME NEW w \in Workers, Crash(w) PROVE (EnvInv /\ LeaseInv /\ HolderLet)'
    <2>1. /\ now' = now /\ key' = key
          /\ env' = [e \in Envelopes |-> IF env[e].by = w /\ env[e].at \in {"held", "claimed", "run"}
                                         THEN [env[e] EXCEPT !.at = "orphan"] ELSE env[e]]
      BY <1>15 DEF Crash
    <2>2. ASSUME NEW e \in Envelopes
          PROVE  /\ Shape(env'[e]) /\ env'[e].since = env[e].since /\ env'[e].let = env[e].let
                 /\ env'[e].open = env[e].open
                 /\ env'[e].at \in {"claimed", "run"} => env'[e] = env[e]
      <3>1. PICK S : env[e] \in Rec(S)
        BY <1>2 DEF Shape
      <3>2. CASE env'[e] = env[e]
        BY <3>1, <3>2 DEF Shape
      <3>3. CASE env'[e] = [env[e] EXCEPT !.at = "orphan"]
        <4>1. env'[e] \in Rec(S \cup {"orphan"})
          BY <3>1, <3>3 DEF Rec
        <4>2. /\ env'[e].since = env[e].since /\ env'[e].let = env[e].let
              /\ env'[e].open = env[e].open /\ env'[e].at = "orphan"
          BY <3>1, <3>3 DEF Rec
        <4> QED BY <4>1, <4>2 DEF Shape
      <3> QED BY <2>1, <3>2, <3>3
    <2>3. EnvInv'
      BY <1>1, <1>2, <2>1, <2>2 DEF EnvInv
    <2>4. HolderLet'
      BY <2>1, <2>2 DEF HolderLet
    <2>5. LeaseInv'
      BY <2>1, <2>2 DEF LeaseInv, Leased
    <2> QED BY <2>3, <2>4, <2>5
  <1>16. CASE UNCHANGED <<now, env, key>>
    BY <1>16 DEF EnvInv, LeaseInv, Leased, HolderLet, Shape
  <1>17. ASSUME NEW w \in Workers, Sampler(w) PROVE (EnvInv /\ LeaseInv /\ HolderLet)'
    BY <1>16, <1>17 DEF Sampler, Sample, SampleReply, SampleFails
  <1>18. CASE Tick
    <2>1. now' = now + 1 /\ env' = env /\ key' = IF key.until <= now' THEN NoKey ELSE key
      BY <1>18 DEF Tick
    <2>2. EnvInv'
      BY <1>1, <1>2, <2>1 DEF EnvInv, NoKey, Shape
    <2>3. HolderLet'
      BY <2>1, DeadlinesAssumption DEF HolderLet, NoKey
    <2>4. ASSUME Wait < Grace, NEW e \in Envelopes PROVE Leased(e)'
      <3>1. Leased(e) /\ env[e].since \in Nat /\ key.until \in Nat
        BY <1>1, <1>2, <2>4 DEF LeaseInv
      <3>2. env[e].at = "claimed" => now < env[e].since + Wait
        BY <1>18 DEF Tick
      <3>3. CASE env[e].at = "claimed" /\ ~env[e].open
        <4>1. key.until > now + 1 /\ now + 1 <= env[e].since + Wait
          BY <1>1, <2>4, <3>1, <3>2, <3>3 DEF Leased
        <4> QED BY <1>1, <2>1, <3>1, <3>3, <4>1 DEF Leased
      <3>4. CASE env[e].at = "run" /\ ~env[e].open
        <4>1. CASE now + 1 <= env[e].since + Timeout
          <5>1. key.holder = e /\ key.until >= env[e].since + Timeout + Grace - Wait
            BY <1>1, <3>1, <3>4, <4>1 DEF Leased
          <5>2. key.until > now + 1
            BY <1>1, <2>4, <3>1, <4>1, <5>1
          <5> QED BY <1>1, <2>1, <3>4, <5>1, <5>2 DEF Leased
        <4>2. CASE ~(now + 1 <= env[e].since + Timeout)
          BY <2>1, <3>4, <4>2 DEF Leased
        <4> QED BY <4>1, <4>2
      <3>5. CASE env[e].open \/ env[e].at \notin {"claimed", "run"}
        BY <2>1, <3>5 DEF Leased
      <3> QED BY <3>3, <3>4, <3>5
    <2> QED BY <2>2, <2>3, <2>4 DEF LeaseInv
  <1>19. CASE UNCHANGED vars
    BY <1>16, <1>19 DEF vars
  <1> QED BY <1>5, <1>6, <1>9, <1>10, <1>11, <1>12, <1>13, <1>14, <1>15, <1>17, <1>18, <1>19,
          <1>20
          DEF Next, Hand, Gates, Attempt

-----------------------------------------------------------------------------
(* Backoff *)

\* A set of numbers has a least one.
LEMMA LeastOne ==
    ASSUME NEW S, S \subseteq Nat, S # {}
    PROVE  \E m \in S : \A k \in S : m <= k
  <1>1. PICK x \in S : \A y \in S : ~(<<y, x>> \in OpToRel(<, Nat))
    BY WFMin, NatLessThanWellFounded
  <1>2. OpToRel(<, Nat) = {ss \in Nat \X Nat : ss[1] < ss[2]}
    BY Zenon DEF OpToRel
  <1>3. \A y \in S : ~(<<y, x>> \in {ss \in Nat \X Nat : ss[1] < ss[2]})
    BY <1>1, <1>2, Zenon
  <1>4. ASSUME NEW y \in S, y < x PROVE FALSE
    <2>1. <<y, x>> \in Nat \X Nat /\ <<y, x>>[1] < <<y, x>>[2]
      BY <1>4
    <2>2. <<y, x>> \in {ss \in Nat \X Nat : ss[1] < ss[2]}
      BY <2>1, Zenon
    <2> QED BY <1>3, <2>2, Zenon
  <1> QED BY <1>4

\* g holds the powers of x up to n.
Powers(x, g, n) == \A k \in 0 .. n : g[k] = IF k = 0 THEN 1 ELSE x * g[k - 1]

\* There are powers up to every n ...
LEMMA PowersExist ==
    ASSUME NEW x \in Nat
    PROVE  \A n \in Nat : \E g \in [0 .. n -> Nat] : Powers(x, g, n)
  <1> DEFINE Bad == {n \in Nat : ~\E g \in [0 .. n -> Nat] : Powers(x, g, n)}
  <1> SUFFICES ASSUME Bad # {} PROVE FALSE
    OBVIOUS
  <1>1. PICK m \in Bad : \A k \in Bad : m <= k
    BY LeastOne
  <1>2. m # 0
    <2>1. [k \in 0 .. 0 |-> 1] \in [0 .. 0 -> Nat] /\ Powers(x, [k \in 0 .. 0 |-> 1], 0)
      BY DEF Powers
    <2> QED BY <1>1, <2>1
  <1>3. m - 1 \in Nat /\ m - 1 \notin Bad
    BY <1>1, <1>2
  <1>4. PICK g \in [0 .. m - 1 -> Nat] : Powers(x, g, m - 1)
    BY <1>3
  <1> DEFINE h == [k \in 0 .. m |-> IF k = m THEN x * g[m - 1] ELSE g[k]]
  <1>5. m - 1 \in 0 .. m - 1 /\ g[m - 1] \in Nat /\ x * g[m - 1] \in Nat
    BY <1>3, <1>4
  <1>6. h \in [0 .. m -> Nat]
    BY <1>3, <1>4, <1>5
  <1>7. ASSUME NEW k \in 0 .. m PROVE h[k] = IF k = 0 THEN 1 ELSE x * h[k - 1]
    <2>1. CASE k = m
      <3>1. h[k] = x * g[m - 1] /\ h[k - 1] = g[m - 1]
        BY <1>2, <1>3, <2>1
      <3> QED BY <1>2, <2>1, <3>1
    <2>2. CASE k # m
      <3>1. k \in 0 .. m - 1 /\ h[k] = g[k]
        BY <1>3, <2>2
      <3>2. k # 0 => k - 1 \in 0 .. m /\ k - 1 # m /\ h[k - 1] = g[k - 1]
        BY <1>3, <2>2
      <3>3. g[k] = IF k = 0 THEN 1 ELSE x * g[k - 1]
        BY <1>4, <3>1 DEF Powers
      <3> HIDE DEF h
      <3> QED BY <3>1, <3>2, <3>3
    <2> QED BY <2>1, <2>2
  <1> HIDE DEF h
  <1>8. Powers(x, h, m)
    BY <1>7 DEF Powers
  <1> QED BY <1>1, <1>6, <1>8

\* ... and only one number can be the power.
LEMMA PowersUnique ==
    ASSUME NEW x \in Nat
    PROVE  \A n \in Nat : \A g, h : Powers(x, g, n) /\ Powers(x, h, n) => g[n] = h[n]
  <1> DEFINE Bad == {n \in Nat : \E g, h : Powers(x, g, n) /\ Powers(x, h, n) /\ g[n] # h[n]}
  <1> SUFFICES ASSUME Bad # {} PROVE FALSE
    OBVIOUS
  <1>1. PICK m \in Bad : \A k \in Bad : m <= k
    BY LeastOne
  <1>2. PICK g, h : Powers(x, g, m) /\ Powers(x, h, m) /\ g[m] # h[m]
    BY <1>1
  <1>3. m # 0 /\ g[m] = x * g[m - 1] /\ h[m] = x * h[m - 1]
    BY <1>1, <1>2 DEF Powers
  <1>4. m - 1 \in Nat /\ Powers(x, g, m - 1) /\ Powers(x, h, m - 1)
    BY <1>1, <1>2, <1>3 DEF Powers
  <1>5. m - 1 \notin Bad
    BY <1>1, <1>3, <1>4
  <1>6. g[m - 1] = h[m - 1]
    BY <1>4, <1>5
  <1> QED BY <1>2, <1>3, <1>6

\* Pow is what its definition says.
LEMMA PowEquations ==
    ASSUME NEW x \in Nat
    PROVE  /\ Pow(x, 0) = 1
           /\ \A n \in Nat : n # 0 => Pow(x, n) = x * Pow(x, n - 1)
  <1> DEFINE Is(f) == f = [k \in Nat |-> IF k = 0 THEN 1 ELSE x * f[k - 1]]
             Upto(n) == CHOOSE g : g \in [0 .. n -> Nat] /\ Powers(x, g, n)
             F == [k \in Nat |-> Upto(k)[k]]
  <1>1. \A n \in Nat : Upto(n) \in [0 .. n -> Nat] /\ Powers(x, Upto(n), n)
    BY PowersExist
  <1> HIDE DEF Upto
  <1>2. ASSUME NEW k \in Nat PROVE F[k] = IF k = 0 THEN 1 ELSE x * F[k - 1]
    <2>1. CASE k = 0
      <3>1. Powers(x, Upto(0), 0) /\ F[k] = Upto(0)[0]
        BY <1>1, <2>1
      <3> QED BY <2>1, <3>1 DEF Powers
    <2>2. CASE k # 0
      <3>1. Powers(x, Upto(k), k) /\ k - 1 \in Nat
        BY <1>1, <2>2
      <3>2. Upto(k)[k] = x * Upto(k)[k - 1] /\ Powers(x, Upto(k), k - 1)
        BY <2>2, <3>1 DEF Powers
      <3>3. Upto(k)[k - 1] = Upto(k - 1)[k - 1]
        BY <1>1, <3>1, <3>2, PowersUnique
      <3>4. F[k] = Upto(k)[k] /\ F[k - 1] = Upto(k - 1)[k - 1]
        BY <3>1
      <3> QED BY <2>2, <3>2, <3>3, <3>4
    <2> QED BY <2>1, <2>2
  <1>3. Is(F)
    <2>1. F = [k \in Nat |-> F[k]]
      OBVIOUS
    <2> HIDE DEF F
    <2> QED BY <1>2, <2>1
  <1> DEFINE P == CHOOSE f : Is(f)
  <1>4. Is(P)
    <2> HIDE DEF Is, F
    <2> QED BY <1>3
  <1>5. \A n : Pow(x, n) = P[n]
    BY DEF Pow
  <1> HIDE DEF P
  <1>6. \A n \in Nat : P[n] = IF n = 0 THEN 1 ELSE x * P[n - 1]
    BY <1>4
  <1> QED BY <1>5, <1>6

\* A power of a factor that is at least one is at least one.
LEMMA PowPositive ==
    ASSUME NEW x \in Nat \ {0}
    PROVE  \A n \in Nat : Pow(x, n) \in Nat \ {0}
  <1> DEFINE Bad == {n \in Nat : Pow(x, n) \notin Nat \ {0}}
  <1> SUFFICES ASSUME Bad # {} PROVE FALSE
    OBVIOUS
  <1>1. PICK m \in Bad : \A k \in Bad : m <= k
    BY LeastOne
  <1>2. m # 0
    BY <1>1, PowEquations
  <1>3. m - 1 \in Nat /\ Pow(x, m - 1) \in Nat \ {0}
    BY <1>1, <1>2
  <1>4. Pow(x, m) = x * Pow(x, m - 1)
    BY <1>1, <1>2, PowEquations
  <1>5. x * Pow(x, m - 1) \in Nat \ {0}
    BY <1>3
  <1> QED BY <1>1, <1>4, <1>5

\* The least backoff is a number.
LEMMA LeastBackoffFacts ==
    /\ LeastBackoff \in Nat
    /\ LeastBackoff <= BackoffBase /\ LeastBackoff <= BackoffMax /\ LeastBackoff <= MaxDelay
  <1>1. BackoffBase \in Nat /\ BackoffMax \in Nat /\ MaxDelay \in Nat
    BY DeadlinesAssumption
  <1>2. ASSUME NEW a \in Nat, NEW b \in Nat, NEW c \in Nat
        PROVE  \E m \in {a, b, c} : \A y \in {a, b, c} : m <= y
    <2>1. CASE a <= b /\ a <= c
      BY <2>1
    <2>2. CASE b <= a /\ b <= c
      BY <2>2
    <2>3. CASE c <= a /\ c <= b
      BY <2>3
    <2> QED BY <2>1, <2>2, <2>3
  <1>3. \E m \in {BackoffBase, BackoffMax, MaxDelay} :
            \A y \in {BackoffBase, BackoffMax, MaxDelay} : m <= y
    BY <1>1, <1>2
  <1> QED BY <1>1, <1>3 DEF LeastBackoff, Min

\* compute_backoff_ms: with its jitter, and clamped, a delay is half the least backoff or more.
LEMMA DelaysLast ==
    ASSUME NEW n \in Nat, NEW d \in RetryDelays(None, n + 1)
    PROVE  d \in Nat /\ d >= LeastBackoff \div 2
  <1> DEFINE P == Pow(Max({1, BackoffFactor}), n)
             B == BaseBackoff(n + 1)
             L == LeastBackoff
  <1>1. /\ BackoffBase \in Nat /\ BackoffFactor \in Nat /\ BackoffMax \in Nat /\ MaxDelay \in Nat
    BY DeadlinesAssumption
  <1>2. \A a, b \in Int : Min({a, b}) = IF a <= b THEN a ELSE b
    BY DEF Min
  <1>3. L \in Nat /\ L <= BackoffBase /\ L <= BackoffMax /\ L <= MaxDelay
    BY LeastBackoffFacts
  <1>4. P \in Nat \ {0}
    <2>1. Max({1, BackoffFactor}) \in Nat \ {0}
      BY <1>1, MaxOfTwo
    <2> QED BY <2>1, PowPositive
  <1>5. B = Min({BackoffMax, BackoffBase * P})
    BY DEF BaseBackoff
  <1> HIDE DEF P, B, L
  <1>6. BackoffBase * P \in Nat /\ BackoffBase * P >= BackoffBase
    BY <1>1, <1>4
  <1>7. B \in Nat /\ B >= L
    BY <1>1, <1>2, <1>3, <1>5, <1>6
  <1>8. PICK x \in ((B + 1) \div 2) .. B : d = Min({MaxDelay, x})
    BY DEF RetryDelays, B
  <1>9. x \in Nat /\ x >= L \div 2
    BY <1>3, <1>7, <1>8
  <1>10. d \in Nat /\ d >= L \div 2
    BY <1>1, <1>2, <1>3, <1>8, <1>9
  <1> QED BY <1>3, <1>10 DEF L

\* The dates of retries under every step.
LEMMA NextDelays == ClockInv /\ EnvInv /\ DelayInv /\ [Next]_vars => DelayInv'
  <1> SUFFICES ASSUME ClockInv, EnvInv, DelayInv, [Next]_vars PROVE DelayInv'
    OBVIOUS
  <1>1. DOMAIN env = Envelopes /\ \A e \in Envelopes : \E S : env[e] \in Rec(S)
    BY DEF EnvInv, Shape
  <1>2. now \in Nat /\ Lag \in Nat
    BY DeadlinesAssumption DEF ClockInv
  \* A step of one envelope that does not put it off.
  <1>3. ASSUME NEW e \in Envelopes, NEW r, Put(e, r), r.retries \in Nat, r.at # "delayed",
               r.at \in {"held", "claimed", "run"} => r.by \in Workers
        PROVE  DelayInv'
    BY <1>1, <1>3 DEF Put, DelayInv
  <1>4. ASSUME NEW e \in Envelopes, NEW how
        PROVE  Settled(e, how).retries = 0 /\ Settled(e, how).at = how
    BY DEF Settled, NewEnvelope
  <1>5. ASSUME NEW e \in Envelopes, Enqueue(e) PROVE DelayInv'
    <2> DEFINE x == ExpiryDeadline(e)
               r == [env[e] EXCEPT !.at = "queued", !.deadline = x]
    <2>1. Put(e, r)
      BY <1>5 DEF Enqueue
    <2>2. r.retries = env[e].retries /\ r.at = "queued"
      BY <1>1 DEF Rec
    <2> HIDE DEF r
    <2> QED BY <1>3, <2>1, <2>2 DEF DelayInv
  <1>6. ASSUME NEW e \in Envelopes, Gates(e)
        PROVE  DelayInv'
    <2> DEFINE x == [Claimed(e) EXCEPT !.open = TRUE]
               R == {Settled(e, "expired"), Settled(e, "duplicate"), Claimed(e), x}
    <2>1. /\ Claimed(e).retries = env[e].retries /\ Claimed(e).by = env[e].by
          /\ Claimed(e).at = "claimed"
      BY <1>1 DEF Claimed, Rec
    <2>2. x.retries = env[e].retries /\ x.by = env[e].by /\ x.at = "claimed"
      BY <1>1 DEF Claimed, Rec
    <2>3. env[e].at = "held" /\ \E r \in R : Put(e, r)
      BY <1>6 DEF Gates, Expire, Claim, ClaimFails
    <2> PICK r \in R : Put(e, r)
      BY <2>3
    <2> HIDE DEF x
    <2>4. /\ r.retries \in Nat /\ r.at # "delayed"
          /\ r.at \in {"held", "claimed", "run"} => r.by \in Workers
      <3>1. CASE r \in {Settled(e, "expired"), Settled(e, "duplicate")}
        BY <1>4, <3>1
      <3>2. CASE r \in {Claimed(e), x}
        BY <2>1, <2>2, <2>3, <3>2 DEF DelayInv
      <3> QED BY <3>1, <3>2
    <2> HIDE DEF R
    <2> QED BY <1>3, <2>4
  <1>7. ASSUME NEW e \in Envelopes, Start(e) \/ Succeed(e) \/ FinalFailure(e) PROVE DelayInv'
    <2> DEFINE r == [env[e] EXCEPT !.at = "run", !.since = now]
    <2>1. CASE Start(e)
      <3>1. Put(e, r) /\ env[e].at = "claimed"
        BY <2>1 DEF Start
      <3>2. r.retries = env[e].retries /\ r.by = env[e].by /\ r.at = "run"
        BY <1>1 DEF Rec
      <3> HIDE DEF r
      <3> QED BY <1>3, <3>1, <3>2 DEF DelayInv
    <2>2. CASE Succeed(e)
      BY <1>3, <1>4, <2>2 DEF Succeed
    <2>3. CASE FinalFailure(e)
      BY <1>3, <1>4, <2>3 DEF FinalFailure
    <2> QED BY <1>7, <2>1, <2>2, <2>3
  <1>14. ASSUME NEW e \in Envelopes, NEW w \in Workers, Deliver(e, w) \/ Reclaim(e, w)
         PROVE  DelayInv'
    <2>1. Put(e, Held(e, w))
      BY <1>14 DEF Deliver, Reclaim
    <2>2. Held(e, w).retries = env[e].retries /\ Held(e, w).at = "held" /\ Held(e, w).by = w
      BY <1>1 DEF Held, Rec
    <2> QED BY <1>3, <2>1, <2>2 DEF DelayInv
  <1>8. ASSUME NEW e \in Envelopes, NEW w \in Workers, Move(e, w) PROVE DelayInv'
    <2>1. Put(e, Queued(e))
      BY <1>8 DEF Move
    <2>2. Queued(e).retries = env[e].retries /\ Queued(e).at = "queued"
      BY <1>1 DEF Queued, Rec
    <2> QED BY <1>3, <2>1, <2>2 DEF DelayInv
  <1>9. ASSUME NEW e \in Envelopes, Retry(e) PROVE DelayInv'
    <2> DEFINE w == env[e].by
               n == env[e].retries + 1
               x(d) == NowMs(w) + d
               y(c) == Anchored(w) /\ c = None
               r(c, d) == [env[e] EXCEPT !.at = "delayed", !.since = now, !.retries = n,
                                         !.fire_at = x(d), !.sane = y(c)]
    <2>1. PICK c \in Countdowns \cup {None} : \E d \in RetryDelays(c, n) : Put(e, r(c, d))
      BY <1>9 DEF Retry
    <2>2. PICK d \in RetryDelays(c, n) : Put(e, r(c, d))
      BY <2>1
    <2> DEFINE q == r(c, d)
    <2>3. /\ q.at = "delayed" /\ q.since = now /\ q.retries = n
          /\ q.fire_at = x(d) /\ q.sane = y(c)
      <3> HIDE DEF x, y, n
      <3> QED BY <1>1 DEF Rec
    <2>4. env'[e] = q /\ \A f \in Envelopes : f # e => env'[f] = env[f]
      <3> HIDE DEF r
      <3> QED BY <1>1, <2>2 DEF Put
    <2> HIDE DEF q
    <2>5. q.retries \in Nat /\ w \in Workers
      BY <1>9, <2>3 DEF DelayInv, Retry
    <2>6. ASSUME q.sane = TRUE
          PROVE  q.fire_at \in Int /\ q.fire_at >= q.since + LeastBackoff \div 2 - Lag
      <3>1. Anchored(w) /\ c = None
        BY <2>3, <2>6
      <3>2. d \in Nat /\ LeastBackoff \in Nat /\ d >= LeastBackoff \div 2
        BY <2>2, <3>1, DelaysLast, LeastBackoffFacts DEF DelayInv
      <3>3. NowMs(w) \in Int /\ NowMs(w) >= now - Lag
        <4>1. \A u \in Workers : Anchored(u) => NowMs(u) \in Max({0, now - Lag}) .. now
          BY NowBehind DEF ClockInv
        <4> QED BY <1>2, <2>5, <3>1, <4>1, MaxOfTwo
      <3>4. LeastBackoff \div 2 \in Int
        BY <3>2
      <3> QED BY <1>2, <2>3, <3>2, <3>3, <3>4
    <2>7. q.at = "delayed"
      BY <2>3
    <2> QED BY <2>4, <2>5, <2>6, <2>7 DEF DelayInv
  <1>10. ASSUME NEW w, Crash(w) PROVE DelayInv'
    <2>1. ASSUME NEW e \in Envelopes
          PROVE  /\ env'[e].retries = env[e].retries
                 /\ env'[e].at \in {"delayed", "held", "claimed", "run"} => env'[e] = env[e]
      <3>1. /\ [env[e] EXCEPT !.at = "orphan"].retries = env[e].retries
            /\ [env[e] EXCEPT !.at = "orphan"].at = "orphan"
        BY <1>1 DEF Rec
      <3>2. env'[e] \in {env[e], [env[e] EXCEPT !.at = "orphan"]}
        BY <1>10 DEF Crash
      <3> QED BY <3>1, <3>2
    <2> QED BY <2>1 DEF DelayInv
  <1>11. CASE env' = env
    BY <1>11 DEF DelayInv
  <1>12. ASSUME NEW w, Sampler(w) PROVE DelayInv'
    BY <1>11, <1>12 DEF Sampler, Sample, SampleReply, SampleFails
  <1>13. CASE Tick \/ UNCHANGED vars
    BY <1>11, <1>13 DEF Tick, vars
  <1> QED BY <1>5, <1>6, <1>7, <1>8, <1>9, <1>10, <1>12, <1>13, <1>14
          DEF Next, Hand, Attempt

-----------------------------------------------------------------------------
(* Theorems *)

\* No clock, no envelope, no key.
LEMMA InitHolds == Init => IInv
  <1> SUFFICES ASSUME Init PROVE IInv
    OBVIOUS
  <1>1. ClockInv
    BY DeadlinesAssumption DEF Init, ClockInv, ClockSound, Anchored, NewClock
  <1>2. EnvInv
    <2>1. NewEnvelope \in Rec({"new", None, 0, TRUE, FALSE})
      BY DEF NewEnvelope, Rec
    <2>2. NewEnvelope.since = 0
      BY DEF NewEnvelope
    <2> QED BY <2>1, <2>2 DEF Init, EnvInv, Shape, NoKey
  <1>3. LeaseInv
    BY DEF Init, LeaseInv, Leased, NewEnvelope
  <1>4. HolderLet
    BY DeadlinesAssumption DEF Init, HolderLet, NoKey
  <1>5. DelayInv
    BY DEF Init, DelayInv, NewEnvelope
  <1> QED BY <1>1, <1>2, <1>3, <1>4, <1>5 DEF IInv

\* The inductive invariant of the clocks, the envelopes, the lease of their key and the
\* dates of retries.
THEOREM InvariantHolds == Spec => []IInv
  <1>1. IInv /\ [Next]_vars => IInv'
    BY NextClocks, NextEnvelopes, NextDelays DEF IInv
  <1> QED BY InitHolds, <1>1, PTL DEF Spec

\* However often a RedisClock is sampled again (apply_sample) it never runs ahead of Redis,
\* and is behind it by the time of a reply at most.
THEOREM ClocksBehind == Spec => []ClockBehind
  <1>1. IInv => ClockBehind
    BY NowBehind DEF IInv, ClockInv, ClockBehind
  <1> QED BY <1>1, InvariantHolds, PTL

\* claim_ttl_s and IDEMP_CLAIM_LUA: the lease of an attempt outlives its timeout when bodies
\* start within the grace of their claim, however often it is renewed, redelivered or crashes.
THEOREM LeaseOutlivesTimeout == ASSUME Wait < Grace PROVE Spec => []LeaseOutlives
  <1>1. IInv => LeaseOutlives
    BY DEF IInv, LeaseInv, Leased, LeaseOutlives, InTime
  <1> QED BY <1>1, InvariantHolds, PTL

\* Under the same assumption two envelopes of one key are never both in their time, for any
\* lease, timeout, number of workers, crashes and retries.
THEOREM ExecutionsExclusive == ASSUME Wait < Grace PROVE Spec => []Exclusive
  <1>1. IInv => Exclusive
    BY DEF IInv, LeaseInv, Leased, Exclusive, InTime
  <1> QED BY <1>1, InvariantHolds, PTL

\* process judges the expiry before the claim: an envelope that expired unseen does not
\* hold the key.
THEOREM ExpiredLeavesKey == Spec => []ExpiredBurnsNoKey
  <1>1. IInv => ExpiredBurnsNoKey
    BY DEF IInv, HolderLet, ExpiredBurnsNoKey
  <1> QED BY <1>1, InvariantHolds, PTL

\* base_backoff_ms and now_ms: whichever worker's clock moves it, a retry is not moved before
\* half the least backoff has passed since it was put off, less what a reply may take.
THEOREM RetriesWait == Spec => RetryNotEarly
  <1>1. IInv /\ [Next]_vars =>
          [\A e \in Envelopes, w \in Workers :
              Move(e, w) /\ Anchored(w) /\ env[e].sane =>
                  now >= env[e].since + Min({BackoffBase, BackoffMax, MaxDelay}) \div 2 - Lag]_vars
    <2> SUFFICES ASSUME IInv, NEW e \in Envelopes, NEW w \in Workers,
                        Move(e, w), Anchored(w), env[e].sane
                 PROVE  now >= env[e].since + LeastBackoff \div 2 - Lag
      BY DEF LeastBackoff
    <2>1. env[e].at = "delayed" /\ env[e].fire_at <= NowMs(w)
      BY DEF Move
    <2>2. NowMs(w) \in Int /\ NowMs(w) <= now /\ now \in Nat /\ Lag \in Nat
      <3>1. now \in Nat /\ Lag \in Nat /\ NowMs(w) \in Max({0, now - Lag}) .. now
        BY NowBehind, DeadlinesAssumption DEF IInv, ClockInv
      <3> QED BY <3>1, MaxOfTwo
    <2>3. env[e].fire_at \in Int /\ env[e].fire_at >= env[e].since + LeastBackoff \div 2 - Lag
      BY <2>1 DEF IInv, DelayInv
    <2>4. env[e].since \in Nat /\ LeastBackoff \div 2 \in Int
      BY LeastBackoffFacts DEF IInv, EnvInv
    <2> QED BY <2>1, <2>2, <2>3, <2>4
  <1> QED BY <1>1, InvariantHolds, PTL DEF Spec, RetryNotEarly
=============================================================================
