----------------------------- MODULE ReplyProofs -----------------------------
(***************************************************************************)
(* A reply ends in time, for every configuration that load_config accepts. *)
(*                                                                         *)
(* Of the Slack adapter, for any number of workers and channels and any    *)
(* lengths of the waits; of the Discord adapter, where besides an error is *)
(* the last that the channel is told and a post of one part is never cut   *)
(* off.  The two share the lemmas about the budget.                        *)
(***************************************************************************)
EXTENDS SlackReply, DiscordReply, SequenceTheorems, TLAPS

(***************************************************************************)
(* The Slack adapter.                                                      *)
(***************************************************************************)

ReplyStages == {"queued", "read", "status", "ask", "lock", "sleep", "post",
                "commit", "fail", "clean", "clear", "done"}

ReplyRecords ==
    [stage : ReplyStages, age : Nat, spent : Nat, waited : Nat, due : Int,
     asked : Nat, left : Nat, error : BOOLEAN, started : BOOLEAN,
     posted : BOOLEAN, seen : BOOLEAN, shown : BOOLEAN, unsure : BOOLEAN]

\* The types of what the deadline depends on.
ReplyTypes ==
    /\ settings \in Settings /\ Accepted(settings)
    /\ reply \in [Posters -> ReplyRecords]
    /\ since \in [Channels -> Int]

\* What a reply in this stage may still need, from here to its end.
Owed(r) ==
    IF r.stage \in {"queued", "read"} THEN WorstCase(settings)
    ELSE IF r.stage = "status"
      THEN (settings.postTimeout - r.spent) + ProviderCalls(settings) * settings.timeout
                + settings.postTimeout
    ELSE IF r.stage = "ask"
      THEN (settings.timeout - r.spent)
                + (ProviderCalls(settings) - r.asked) * settings.timeout
                + settings.postTimeout
    ELSE IF r.stage \in {"lock", "sleep"} THEN r.left * settings.postTimeout
    ELSE IF r.stage = "post"
      THEN (settings.postTimeout - r.spent) + (r.left - 1) * settings.postTimeout
    ELSE IF r.stage = "clear" THEN settings.postTimeout - r.spent
    ELSE 0

Early == {"queued", "read", "status"}

\* The time there is for a reply: one that neither asks the provider nor will may be
\* the text of a command, which takes as long as its posts.
TimeFor(r) ==
    IF /\ r.asked = 0 /\ r.stage \notin Early
       /\ TextParts * settings.postTimeout > Budget
      THEN TextParts * settings.postTimeout ELSE Budget

\* The time used, but for the waits, and the time owed fit into the time there is; no
\* call has exceeded its timeout, nor the requests their number; something is posted;
\* and nothing but waiting is behind a reply before the provider is asked.
Fits(r) ==
    /\ r.age - r.waited + Owed(r) <= TimeFor(r)
    /\ r.stage \in Early => r.asked = 0
    /\ r.stage = "ask" => r.asked >= 1
    /\ r.stage = "status" => settings.status
    /\ r.stage \in {"status", "post", "clear"} => r.spent <= settings.postTimeout
    /\ r.stage = "ask" => r.spent <= settings.timeout
    /\ r.stage = "ask" => r.asked <= ProviderCalls(settings)
    /\ r.stage \in {"lock", "sleep", "post"} => r.left >= 1
    /\ r.stage \in {"queued", "read"} => r.age <= r.waited

\* The inductive invariant.
DeadlineInv ==
    /\ ReplyTypes
    /\ ~Local(settings) => \A j \in Jobs : Fits(reply[j])

-------------------------------------------------------------------------------
\* A product with one factor taken out.
LEMMA OneFactor ==
    ASSUME NEW n \in Nat, NEW t \in Nat
    PROVE  /\ n * t \in Nat
           /\ n >= 1 => (n - 1) * t \in Nat /\ (n - 1) * t + t = n * t
  <1>1. n * t \in Nat
    BY SMT
  <1>2. ASSUME n >= 1 PROVE (n - 1) * t \in Nat /\ (n - 1) * t + t = n * t
    <2>1. n - 1 \in Nat
      BY <1>2, SMT
    <2>2. (n - 1) * t \in Nat
      BY <2>1, SMT
    <2>3. (n - 1) * t + t = n * t
      BY SMT
    <2> QED
      BY <2>2, <2>3
  <1> QED
    BY <1>1, <1>2

\* The numbers of an accepted configuration, and what acceptance promises.
LEMMA SettingsTypes ==
    ASSUME settings \in Settings, Accepted(settings)
    PROVE  /\ settings.timeout \in Nat /\ settings.postTimeout \in Nat
           /\ settings.parts \in Nat \ {0} /\ TextParts \in Nat \ {0}
           /\ settings.status \in BOOLEAN
           /\ ProviderCalls(settings) \in Nat /\ ProviderCalls(settings) >= 1
           /\ PlatformCalls(settings) = IF settings.status THEN 2 ELSE 1
           /\ Budget \in Int
           /\ ~Local(settings) => /\ settings.parts = 1 /\ WorstCase(settings) <= Budget
  BY BudgetAssumption DEF Accepted, ProviderCalls, PlatformCalls, Budget

\* There is never less time than the budget, nor less than before once a reply has
\* gone on; and there is no more for one that has asked the provider or yet may.
LEMMA EnoughTime ==
    ASSUME settings \in Settings, Accepted(settings), NEW r, NEW q
    PROVE  /\ TextParts * settings.postTimeout \in Nat /\ Budget \in Int
           /\ TimeFor(r) \in Int /\ Budget <= TimeFor(r)
           /\ r.stage \in Early \/ r.asked # 0 => TimeFor(r) = Budget
           /\ r.stage \notin Early /\ r.asked = 0 =>
                TextParts * settings.postTimeout <= TimeFor(r)
           /\ r.stage \notin Early /\ r.asked = q.asked => TimeFor(q) <= TimeFor(r)
  <1> DEFINE text == TextParts * settings.postTimeout
  <1>1. text \in Nat /\ Budget \in Int
    BY SettingsTypes, OneFactor
  <1>2. /\ TimeFor(r) = IF r.asked = 0 /\ r.stage \notin Early /\ text > Budget
                         THEN text ELSE Budget
        /\ TimeFor(q) = IF q.asked = 0 /\ q.stage \notin Early /\ text > Budget
                         THEN text ELSE Budget
    BY DEF TimeFor
  <1> HIDE DEF text
  <1>3. /\ TimeFor(r) \in Int /\ Budget <= TimeFor(r)
        /\ r.stage \in Early \/ r.asked # 0 => TimeFor(r) = Budget
        /\ r.stage \notin Early /\ r.asked = 0 => text <= TimeFor(r)
        /\ r.stage \notin Early /\ r.asked = q.asked => TimeFor(q) <= TimeFor(r)
    BY <1>1, <1>2
  <1> QED
    BY <1>1, <1>3 DEF text

\* A step of one reply that leaves the others alone keeps the invariant when the
\* reply it leads to is a record of its type that fits.
LEMMA OneReply ==
    ASSUME DeadlineInv, NEW k \in Posters, NEW r \in ReplyRecords,
           Becomes(k, r), since' \in [Channels -> Int],
           k \in Jobs /\ ~Local(settings) => Fits(r)
    PROVE  DeadlineInv'
  <1>1. settings' = settings /\ reply' = [reply EXCEPT ![k] = r]
    BY DEF Becomes
  <1>2. ReplyTypes'
    BY <1>1 DEF DeadlineInv, ReplyTypes, Accepted, Local, WorstCase, ProviderCalls,
                PlatformCalls
  <1>3. ASSUME ~Local(settings'), NEW j \in Jobs PROVE Fits(reply[j])'
    <2>1. j \in Posters /\ ~Local(settings) /\ Fits(reply[j])
      BY <1>1, <1>3 DEF DeadlineInv, Posters
    <2>2. reply'[j] = IF j = k THEN r ELSE reply[j]
      BY <1>1, <2>1 DEF DeadlineInv, ReplyTypes
    <2>3. Fits(reply'[j])
      BY <2>1, <2>2
    <2> QED
      BY <1>1, <2>3 DEF Fits, Owed, TimeFor, WorstCase, ProviderCalls, PlatformCalls, Budget
  <1> QED
    BY <1>1, <1>2, <1>3 DEF DeadlineInv, Local

-------------------------------------------------------------------------------
\* What the invariant says of one reply.
LEMMA ReplyOf ==
    ASSUME DeadlineInv, NEW j \in Posters
    PROVE  /\ settings \in Settings /\ Accepted(settings)
           /\ reply[j] \in ReplyRecords
           /\ since \in [Channels -> Int] /\ since[ChannelOf[j]] \in Int
           /\ j \in Jobs /\ ~Local(settings) => Fits(reply[j])
  BY ReplyAssumption DEF DeadlineInv, ReplyTypes, Posters

\* A reply that enters a stage stays a record of its type.
LEMMA EntersStage ==
    ASSUME NEW j \in Posters, reply[j] \in ReplyRecords, NEW s \in ReplyStages
    PROVE  /\ Enters(j, s) \in ReplyRecords
           /\ Enters(j, s).stage = s /\ Enters(j, s).spent = 0
           /\ Enters(j, s).age = reply[j].age /\ Enters(j, s).waited = reply[j].waited
           /\ Enters(j, s).left = reply[j].left /\ Enters(j, s).asked = reply[j].asked
  BY DEF Enters, ReplyRecords

\* A reply about to post queues for the lock, no older than it was.
LEMMA PostingStage ==
    ASSUME NEW j \in Posters, reply[j] \in ReplyRecords, NEW n \in Nat
    PROVE  /\ Posting(j, n) \in ReplyRecords
           /\ Posting(j, n).stage = "lock" /\ Posting(j, n).spent = 0
           /\ Posting(j, n).age = reply[j].age /\ Posting(j, n).waited = reply[j].waited
           /\ Posting(j, n).left = n /\ Posting(j, n).asked = reply[j].asked
  BY EntersStage DEF Posting, ReplyRecords, ReplyStages

\* Marks on a reply leave it a record of its type, and its stage and times alone.
LEMMA Marked ==
    ASSUME NEW e \in ReplyRecords, NEW ok \in BOOLEAN,
           NEW m \in {[e EXCEPT !.posted = TRUE, !.seen = TRUE], [e EXCEPT !.error = TRUE],
                      [e EXCEPT !.shown = ~ok, !.unsure = e.unsure \/ ~ok]}
    PROVE  /\ m \in ReplyRecords
           /\ m.stage = e.stage /\ m.age = e.age /\ m.spent = e.spent
           /\ m.waited = e.waited /\ m.left = e.left /\ m.asked = e.asked
  <1>1. CASE m = [e EXCEPT !.posted = TRUE, !.seen = TRUE]
    BY <1>1 DEF ReplyRecords
  <1>2. CASE m = [e EXCEPT !.error = TRUE]
    BY <1>2 DEF ReplyRecords
  <1>3. CASE m = [e EXCEPT !.shown = ~ok, !.unsure = e.unsure \/ ~ok]
    <2> DEFINE a == ~ok
               u == e.unsure \/ ~ok
    <2>1. a \in BOOLEAN /\ u \in BOOLEAN
      OBVIOUS
    <2>2. m = [e EXCEPT !.shown = a, !.unsure = u]
      BY <1>3
    <2> HIDE DEF a, u
    <2> QED
      BY <2>1, <2>2 DEF ReplyRecords
  <1> QED
    BY <1>1, <1>2, <1>3

\* The time a reply still owes is never negative.
LEMMA OwedIsNat ==
    ASSUME settings \in Settings, Accepted(settings), ~Local(settings),
           NEW r \in ReplyRecords, Fits(r)
    PROVE  Owed(r) \in Nat
  <1> DEFINE C == ProviderCalls(settings)
             t == settings.timeout
             p == settings.postTimeout
  <1>1. /\ t \in Nat /\ p \in Nat /\ C \in Nat
        /\ PlatformCalls(settings) \in {1, 2}
        /\ r.spent \in Nat /\ r.asked \in Nat /\ r.left \in Nat
    BY SettingsTypes DEF ReplyRecords
  <1>2. C * t \in Nat
    BY <1>1, OneFactor
  <1>3. PlatformCalls(settings) * p \in Nat
    BY <1>1
  <1>4. WorstCase(settings) \in Nat
    BY <1>1, <1>2, <1>3 DEF WorstCase
  <1>5. ASSUME r.stage = "ask" PROVE (C - r.asked) * t \in Nat
    <2>1. C - r.asked \in Nat
      BY <1>1, <1>5 DEF Fits
    <2> QED
      BY <1>1, <2>1, OneFactor
  <1> HIDE DEF C, t, p
  <1>6. /\ r.stage = "ask" => r.spent <= t
        /\ r.stage \in {"status", "post", "clear"} => r.spent <= p
    BY DEF Fits, t, p
  <1>7. CASE r.stage \in {"queued", "read"}
    BY <1>4, <1>7 DEF Owed
  <1>8. CASE r.stage = "status"
    <2>1. Owed(r) = (p - r.spent) + C * t + p
      BY <1>8 DEF Owed, C, t, p
    <2> QED
      BY <1>1, <1>2, <1>6, <1>8, <2>1
  <1>9. CASE r.stage = "ask"
    <2>1. Owed(r) = (t - r.spent) + (C - r.asked) * t + p
      BY <1>9 DEF Owed, C, t, p
    <2> QED
      BY <1>1, <1>5, <1>6, <1>9, <2>1
  <1>10. CASE r.stage \in {"lock", "sleep"}
    <2>1. Owed(r) = r.left * p
      BY <1>10 DEF Owed, p
    <2> QED
      BY <1>1, <2>1, OneFactor
  <1>11. CASE r.stage = "post"
    <2>1. Owed(r) = (p - r.spent) + (r.left - 1) * p
      BY <1>11 DEF Owed, p
    <2>2. (r.left - 1) * p \in Nat
      BY <1>1, <1>11, OneFactor DEF Fits
    <2> QED
      BY <1>1, <1>6, <1>11, <2>1, <2>2
  <1>12. CASE r.stage = "clear"
    BY <1>1, <1>6, <1>12 DEF Owed, p
  <1>13. CASE r.stage \notin {"queued", "read", "status", "ask", "lock", "sleep", "post",
                             "clear"}
    BY <1>13 DEF Owed
  <1> QED
    BY <1>7, <1>8, <1>9, <1>10, <1>11, <1>12, <1>13

\* A reply in a stage that owes nothing fits when it fitted before.
LEMMA OwesNothing ==
    ASSUME DeadlineInv, NEW j \in Jobs, ~Local(settings), NEW r \in ReplyRecords,
           r.age = reply[j].age, r.waited = reply[j].waited, r.asked = reply[j].asked,
           r.stage \in {"commit", "fail", "clean", "done"}
    PROVE  Fits(r)
  <1>1. reply[j] \in ReplyRecords /\ Fits(reply[j])
    BY ReplyOf DEF Posters
  <1>2. Owed(reply[j]) \in Nat
    BY <1>1, ReplyOf, OwedIsNat DEF Posters
  <1>3. Owed(r) = 0
    BY DEF Owed
  <1>4. /\ TimeFor(reply[j]) \in Int /\ TimeFor(r) \in Int
        /\ TimeFor(reply[j]) <= TimeFor(r)
    BY ReplyOf, EnoughTime DEF Posters, Early
  <1>5. r.age - r.waited + 0 <= TimeFor(r)
    BY <1>1, <1>2, <1>4 DEF Fits, ReplyRecords
  <1> QED
    BY <1>3, <1>5 DEF Fits, Early

\* A text fits when the time before it and its posts fit.
LEMMA TextFits ==
    ASSUME NEW r \in ReplyRecords, r.stage = "lock", r.left >= 1,
           r.age - r.waited + r.left * settings.postTimeout <= TimeFor(r)
    PROVE  Fits(r)
  BY DEF Fits, Owed, Early

\* A text of one part fits when the time before it and one post fit.
LEMMA PostFits ==
    ASSUME DeadlineInv, NEW r \in ReplyRecords, r.stage = "lock", r.left = 1,
           r.age - r.waited + settings.postTimeout <= Budget
    PROVE  Fits(r)
  <1>1. settings.postTimeout \in Nat
    BY SettingsTypes DEF DeadlineInv, ReplyTypes
  <1>2. r.left * settings.postTimeout = settings.postTimeout
    BY <1>1
  <1>3. TimeFor(r) \in Int /\ Budget <= TimeFor(r) /\ Budget \in Int
    BY EnoughTime DEF DeadlineInv, ReplyTypes
  <1>4. r.age - r.waited + settings.postTimeout <= TimeFor(r)
    BY <1>1, <1>3 DEF ReplyRecords
  <1> QED
    BY <1>2, <1>4, TextFits

-------------------------------------------------------------------------------
\* What the worker does before the provider is asked.
LEMMA TakeFits ==
    ASSUME DeadlineInv, NEW j \in Posters, Take(j)
    PROVE  DeadlineInv'
  <1> DEFINE r == IF j = Notice THEN Posting(j, 1) ELSE Enters(j, "read")
  <1>1. r \in ReplyRecords
    BY ReplyOf, EntersStage, PostingStage DEF ReplyStages
  <1>2. ASSUME j \in Jobs, ~Local(settings) PROVE Fits(r)
    <2>1. r = Enters(j, "read")
      BY <1>2, ReplyAssumption
    <2>2. /\ r.stage = "read" /\ r.asked = reply[j].asked
          /\ r.age = reply[j].age /\ r.waited = reply[j].waited
      BY <2>1, ReplyOf, EntersStage DEF ReplyStages
    <2>3. Fits(reply[j]) /\ reply[j].stage = "queued"
      BY <1>2, ReplyOf DEF Take
    <2>4. Owed(reply[j]) = WorstCase(settings) /\ Owed(r) = WorstCase(settings)
      BY <2>2, <2>3 DEF Owed
    <2> HIDE DEF r
    <2>5. TimeFor(reply[j]) = Budget /\ TimeFor(r) = Budget
      BY <2>2, <2>3 DEF TimeFor, Early
    <2> QED
      BY <2>2, <2>3, <2>4, <2>5 DEF Fits, Early
  <1>3. Becomes(j, r) /\ since' = since
    BY DEF Take, Calm
  <1> HIDE DEF r
  <1> QED
    BY <1>1, <1>2, <1>3, ReplyOf, OneReply

\* A refusal or the answer to a command is made of posts that fit.
LEMMA ReadFits ==
    ASSUME DeadlineInv, NEW j \in Posters, Read(j)
    PROVE  DeadlineInv'
  <1> DEFINE C == ProviderCalls(settings)
             t == settings.timeout
             p == settings.postTimeout
             ask == [Enters(j, "ask") EXCEPT !.asked = 1]
  <1>1. /\ reply[j] \in ReplyRecords /\ reply[j].stage = "read"
        /\ since' = since /\ since \in [Channels -> Int]
        /\ t \in Nat /\ p \in Nat /\ C \in Nat /\ C >= 1
        /\ settings.status \in BOOLEAN
    BY ReplyOf, SettingsTypes DEF Read, Calm
  <1>2. C * t \in Nat /\ (C - 1) * t \in Nat /\ (C - 1) * t + t = C * t
    BY <1>1, OneFactor
  <1>3. WorstCase(settings) = C * t + (IF settings.status THEN p + p ELSE p)
    BY <1>1, ReplyOf, SettingsTypes DEF WorstCase
  <1>4. ASSUME j \in Jobs, ~Local(settings)
        PROVE  /\ reply[j].age - reply[j].waited + WorstCase(settings) <= Budget
               /\ reply[j].asked = 0
    BY <1>1, <1>4, ReplyOf DEF Fits, Owed, TimeFor, Early
  <1>5. Budget \in Int
    BY ReplyOf, SettingsTypes
  <1>6. CASE settings.status /\ Becomes(j, Enters(j, "status"))
    <2> DEFINE r == Enters(j, "status")
    <2>1. /\ r \in ReplyRecords /\ r.stage = "status" /\ r.spent = 0
          /\ r.age = reply[j].age /\ r.waited = reply[j].waited /\ r.asked = reply[j].asked
      BY <1>1, EntersStage DEF ReplyStages
    <2> HIDE DEF r
    <2>2. ASSUME j \in Jobs, ~Local(settings) PROVE Fits(r)
      <3>1. Owed(r) = (p - 0) + C * t + p
        BY <2>1 DEF Owed
      <3>2. r.age - r.waited + ((p - 0) + C * t + p) <= Budget
        <4> HIDE DEF C, t, p
        <4> QED
          BY <1>1, <1>2, <1>3, <1>4, <1>5, <1>6, <2>1, <2>2 DEF ReplyRecords
      <3> QED
        BY <1>1, <1>4, <1>6, <2>1, <2>2, <3>1, <3>2 DEF Fits, TimeFor, Early
    <2> QED
      BY <1>1, <1>6, <2>1, <2>2, OneReply DEF r
  <1>7. CASE Becomes(j, ask)
    <2>1. /\ ask \in ReplyRecords /\ ask.stage = "ask" /\ ask.spent = 0 /\ ask.asked = 1
          /\ ask.age = reply[j].age /\ ask.waited = reply[j].waited
      BY <1>1, EntersStage DEF ReplyStages, ReplyRecords
    <2> HIDE DEF ask
    <2>2. ASSUME j \in Jobs, ~Local(settings) PROVE Fits(ask)
      <3>1. Owed(ask) = (t - 0) + (C - 1) * t + p
        BY <2>1 DEF Owed
      <3>2. ask.age - ask.waited + ((t - 0) + (C - 1) * t + p) <= Budget
        <4> HIDE DEF C, t, p
        <4> QED
          BY <1>1, <1>2, <1>3, <1>4, <1>5, <2>1, <2>2 DEF ReplyRecords
      <3> QED
        BY <1>1, <2>1, <3>1, <3>2 DEF Fits, TimeFor, Early
    <2> QED
      BY <1>1, <1>7, <2>1, <2>2, OneReply
  <1>8. CASE Becomes(j, Enters(j, "fail"))
    <2>1. /\ Enters(j, "fail") \in ReplyRecords /\ Enters(j, "fail").stage = "fail"
          /\ Enters(j, "fail").age = reply[j].age /\ Enters(j, "fail").waited = reply[j].waited
          /\ Enters(j, "fail").asked = reply[j].asked
      BY <1>1, EntersStage DEF ReplyStages
    <2>2. j \in Jobs /\ ~Local(settings) => Fits(Enters(j, "fail"))
      BY <2>1, OwesNothing
    <2> QED
      BY <1>1, <1>8, <2>1, <2>2, OneReply
  <1>9. ASSUME NEW n \in 1 .. TextParts, Becomes(j, Posting(j, n)) PROVE DeadlineInv'
    <2> DEFINE r == Posting(j, n)
    <2>1. /\ n \in Nat /\ n >= 1 /\ r \in ReplyRecords /\ r.stage = "lock" /\ r.left = n
          /\ r.age = reply[j].age /\ r.waited = reply[j].waited /\ r.asked = reply[j].asked
      <3>1. n \in Nat /\ n >= 1
        BY <1>9, ReplyOf, SettingsTypes
      <3> QED
        BY <1>1, <3>1, PostingStage
    <2> HIDE DEF r
    <2>2. ASSUME j \in Jobs, ~Local(settings) PROVE Fits(r)
      <3>1. n * p <= TextParts * p
        <4>1. TextParts \in Nat /\ TextParts - n \in Nat
          BY <1>9, <2>1, ReplyOf, SettingsTypes
        <4>2. n * p \in Nat /\ (TextParts - n) * p \in Nat
          BY <1>1, <2>1, <4>1, OneFactor
        <4>3. n * p + (TextParts - n) * p = TextParts * p
          BY <1>1, <2>1, <4>1
        <4>4. TextParts * p \in Nat
          BY <1>1, <4>1, OneFactor
        <4> HIDE DEF p
        <4> QED
          BY <4>2, <4>3, <4>4
      <3>2. /\ TextParts * p <= TimeFor(r) /\ TimeFor(r) \in Int
            /\ TextParts * p \in Nat /\ n * p \in Nat
        BY <1>1, <1>4, <2>1, <2>2, ReplyOf, EnoughTime, OneFactor DEF Early
      <3>3. r.age <= r.waited /\ r.age \in Nat /\ r.waited \in Nat
        BY <1>1, <2>1, <2>2, ReplyOf DEF Fits, ReplyRecords
      <3>4. r.age - r.waited + n * p <= TimeFor(r)
        <4> DEFINE m == n * p
                   text == TextParts * p
        <4>1. /\ m \in Nat /\ text \in Nat /\ m <= text /\ text <= TimeFor(r)
          BY <3>1, <3>2
        <4> HIDE DEF m, text
        <4> QED
          BY <3>2, <3>3, <4>1 DEF m
      <3> QED
        BY <2>1, <3>4, TextFits
    <2> QED
      BY <1>1, <1>9, <2>1, <2>2, OneReply DEF r
  <1>10. CASE Becomes(j, Enters(j, "clean"))
    <2>1. /\ Enters(j, "clean") \in ReplyRecords /\ Enters(j, "clean").stage = "clean"
          /\ Enters(j, "clean").age = reply[j].age
          /\ Enters(j, "clean").waited = reply[j].waited
          /\ Enters(j, "clean").asked = reply[j].asked
      BY <1>1, EntersStage DEF ReplyStages
    <2>2. j \in Jobs /\ ~Local(settings) => Fits(Enters(j, "clean"))
      BY <2>1, OwesNothing
    <2> QED
      BY <1>1, <1>10, <2>1, <2>2, OneReply
  <1> QED
    BY <1>6, <1>7, <1>8, <1>9, <1>10 DEF Read

\* After the status there is time for every request and for the post.
LEMMA StatusFits ==
    ASSUME DeadlineInv, NEW j \in Posters, StatusReturns(j)
    PROVE  DeadlineInv'
  <1> DEFINE C == ProviderCalls(settings)
             t == settings.timeout
             p == settings.postTimeout
  <1>1. /\ reply[j] \in ReplyRecords /\ reply[j].stage = "status"
        /\ since' = since /\ since \in [Channels -> Int]
        /\ t \in Nat /\ p \in Nat /\ C \in Nat /\ C >= 1
    BY ReplyOf, SettingsTypes DEF StatusReturns, Calm
  <1>2. C * t \in Nat /\ (C - 1) * t \in Nat /\ (C - 1) * t + t = C * t
    BY <1>1, OneFactor
  <1>3. PICK ok \in BOOLEAN, shown \in BOOLEAN :
            Becomes(j, [Enters(j, "ask") EXCEPT !.asked = 1, !.started = ok,
                            !.shown = shown, !.unsure = ~ok])
    BY DEF StatusReturns
  <1> DEFINE r == [Enters(j, "ask") EXCEPT !.asked = 1, !.started = ok,
                       !.shown = shown, !.unsure = ~ok]
  <1>4. /\ r \in ReplyRecords /\ r.stage = "ask" /\ r.spent = 0 /\ r.asked = 1
        /\ r.age = reply[j].age /\ r.waited = reply[j].waited
    <2> DEFINE e == Enters(j, "ask")
               failed == ~ok
    <2>1. /\ e \in ReplyRecords /\ e.stage = "ask" /\ e.spent = 0
          /\ e.age = reply[j].age /\ e.waited = reply[j].waited
      BY <1>1, EntersStage DEF ReplyStages
    <2>2. failed \in BOOLEAN
      OBVIOUS
    <2>3. r = [e EXCEPT !.asked = 1, !.started = ok, !.shown = shown, !.unsure = failed]
      OBVIOUS
    <2> HIDE DEF e, r, failed
    <2> QED
      BY <2>1, <2>2, <2>3 DEF ReplyRecords
  <1> HIDE DEF r
  <1>5. ASSUME j \in Jobs, ~Local(settings) PROVE Fits(r)
    <2>1. /\ reply[j].age - reply[j].waited + ((p - reply[j].spent) + C * t + p) <= Budget
          /\ reply[j].spent <= p
      BY <1>1, <1>5, ReplyOf DEF Fits, Owed, TimeFor, Early
    <2>2. Owed(r) = (t - 0) + (C - 1) * t + p
      BY <1>4 DEF Owed
    <2>3. Budget \in Int
      BY ReplyOf, SettingsTypes
    <2>4. r.age - r.waited + ((t - 0) + (C - 1) * t + p) <= Budget
      <3> HIDE DEF C, t, p
      <3> QED
        BY <1>1, <1>2, <1>4, <2>1, <2>3 DEF ReplyRecords
    <2> QED
      BY <1>1, <1>4, <2>2, <2>4 DEF Fits, TimeFor, Early
  <1> QED
    BY <1>1, <1>3, <1>4, <1>5, OneReply DEF r

-------------------------------------------------------------------------------
\* The provider and the posts.
LEMMA ProviderFits ==
    ASSUME DeadlineInv, NEW j \in Posters, ProviderReturns(j)
    PROVE  DeadlineInv'
  <1> DEFINE C == ProviderCalls(settings)
             t == settings.timeout
             p == settings.postTimeout
             a == reply[j].asked
  <1>1. /\ reply[j] \in ReplyRecords /\ reply[j].stage = "ask"
        /\ since' = since /\ since \in [Channels -> Int]
        /\ t \in Nat /\ p \in Nat /\ C \in Nat /\ C >= 1
        /\ settings.parts \in Nat /\ a \in Nat /\ Budget \in Int
    BY ReplyOf, SettingsTypes DEF ProviderReturns, Calm, ReplyRecords
  <1>2. ASSUME j \in Jobs, ~Local(settings)
        PROVE  /\ reply[j].age - reply[j].waited + ((t - reply[j].spent) + (C - a) * t + p)
                    <= Budget
               /\ reply[j].spent <= t /\ a <= C
    BY <1>1, <1>2, ReplyOf DEF Fits, Owed, TimeFor
  <1>3. ASSUME a <= C PROVE (C - a) * t \in Nat
    BY <1>1, <1>3, OneFactor
  <1>4. CASE a < C /\ Becomes(j, [Enters(j, "ask") EXCEPT !.asked = @ + 1])
    <2> DEFINE r == [Enters(j, "ask") EXCEPT !.asked = @ + 1]
    <2>1. /\ r \in ReplyRecords /\ r.stage = "ask" /\ r.spent = 0 /\ r.asked = a + 1
          /\ r.age = reply[j].age /\ r.waited = reply[j].waited
      <3> DEFINE e == Enters(j, "ask")
      <3>1. /\ e \in ReplyRecords /\ e.stage = "ask" /\ e.spent = 0 /\ e.asked = a
            /\ e.age = reply[j].age /\ e.waited = reply[j].waited
        BY <1>1, EntersStage DEF ReplyStages
      <3>2. r = [e EXCEPT !.asked = e.asked + 1]
        OBVIOUS
      <3>3. a + 1 \in Nat
        BY <1>1
      <3> HIDE DEF e, r, a
      <3>4. r = [e EXCEPT !.asked = a + 1]
        BY <3>1, <3>2
      <3>5. r.asked = a + 1
        BY <3>1, <3>4 DEF ReplyRecords
      <3> QED
        BY <3>1, <3>3, <3>4, <3>5 DEF ReplyRecords
    <2> HIDE DEF r
    <2>2. ASSUME j \in Jobs, ~Local(settings) PROVE Fits(r)
      <3>1. C - a \in Nat /\ C - a >= 1 /\ (C - a) - 1 = C - (a + 1)
        BY <1>1, <1>4
      <3>2. (C - (a + 1)) * t \in Nat /\ (C - (a + 1)) * t + t = (C - a) * t
        <4> HIDE DEF C, t, a
        <4> QED
          BY <1>1, <3>1, OneFactor
      <3>3. Owed(r) = (t - 0) + (C - (a + 1)) * t + p
        BY <2>1 DEF Owed
      <3>4. r.age - r.waited + ((t - 0) + (C - (a + 1)) * t + p) <= Budget
        <4>1. reply[j].age \in Nat /\ reply[j].waited \in Nat /\ reply[j].spent \in Nat
          BY <1>1 DEF ReplyRecords
        <4>2. (C - a) * t \in Nat
          BY <1>2, <1>3, <2>2
        <4> HIDE DEF C, t, p, a
        <4> QED
          BY <1>1, <1>2, <2>1, <2>2, <3>2, <4>1, <4>2
      <3>5. a + 1 <= C
        BY <1>1, <1>4
      <3> QED
        BY <1>1, <2>1, <3>3, <3>4, <3>5 DEF Fits, TimeFor, Early
    <2> QED
      BY <1>1, <1>4, <2>1, <2>2, OneReply DEF r
  <1>5. ASSUME NEW n \in {settings.parts, 1}, Becomes(j, Posting(j, n)) PROVE DeadlineInv'
    <2> DEFINE r == Posting(j, n)
    <2>1. /\ n \in Nat /\ r \in ReplyRecords /\ r.stage = "lock" /\ r.left = n
          /\ r.age = reply[j].age /\ r.waited = reply[j].waited
      BY <1>1, <1>5, PostingStage
    <2> HIDE DEF r
    <2>2. ASSUME j \in Jobs, ~Local(settings) PROVE Fits(r)
      <3>1. n = 1
        BY <2>2, <1>5, ReplyOf, SettingsTypes
      <3>2. r.age - r.waited + settings.postTimeout <= Budget
        <4>1. reply[j].age \in Nat /\ reply[j].waited \in Nat /\ reply[j].spent \in Nat
          BY <1>1 DEF ReplyRecords
        <4>2. (C - a) * t \in Nat
          BY <1>2, <1>3, <2>2
        <4> DEFINE rest == (C - a) * t
        <4>3. reply[j].age - reply[j].waited + ((t - reply[j].spent) + rest + p) <= Budget
          BY <1>2, <2>2
        <4>4. rest \in Nat
          BY <4>2
        <4>5. reply[j].spent <= t
          BY <1>2, <2>2
        <4> HIDE DEF rest, C
        <4> QED
          BY <1>1, <2>1, <4>1, <4>3, <4>4, <4>5
      <3> QED
        BY <2>1, <2>2, <3>1, <3>2, PostFits
    <2> QED
      BY <1>1, <1>5, <2>1, <2>2, OneReply DEF r
  <1> QED
    BY <1>4, <1>5 DEF ProviderReturns

\* A reply that has got its turn to post.
LEMMA MayPost ==
    ASSUME DeadlineInv, NEW j \in Posters, NEW s \in {"sleep", "post"},
           reply[j].stage \in {"lock", "sleep"}, NEW d \in Int,
           NEW r, r = [Enters(j, s) EXCEPT !.due = d]
    PROVE  /\ r \in ReplyRecords
           /\ j \in Jobs /\ ~Local(settings) => Fits(r)
  <1>1. reply[j] \in ReplyRecords /\ settings.postTimeout \in Nat
    BY ReplyOf, SettingsTypes
  <1>2. /\ r \in ReplyRecords /\ r.stage = s /\ r.spent = 0 /\ r.left = reply[j].left
        /\ r.age = reply[j].age /\ r.waited = reply[j].waited /\ r.asked = reply[j].asked
    BY <1>1, EntersStage DEF ReplyStages, ReplyRecords
  <1>3. ASSUME j \in Jobs, ~Local(settings) PROVE Fits(r)
    <2> DEFINE n == r.left
               p == settings.postTimeout
    <2>1. Fits(reply[j]) /\ Owed(reply[j]) = n * p /\ n >= 1
      BY <1>2, <1>3, ReplyOf DEF Owed, Fits
    <2>2. n \in Nat /\ p \in Nat
      BY <1>1, <1>2 DEF ReplyRecords
    <2>3. (n - 1) * p \in Nat /\ (n - 1) * p + p = n * p
      BY <2>1, <2>2, OneFactor
    <2>4. Owed(r) = IF s = "sleep" THEN n * p ELSE (p - 0) + (n - 1) * p
      BY <1>2 DEF Owed
    <2>5. Owed(r) = n * p
      <3> HIDE DEF n, p
      <3> QED
        BY <2>2, <2>3, <2>4
    <2>6. TimeFor(r) = TimeFor(reply[j])
      BY <1>2 DEF TimeFor, Early
    <2> QED
      BY <1>1, <1>2, <2>1, <2>5, <2>6 DEF Fits, Early
  <1> QED
    BY <1>2, <1>3

\* Who waits for the lock, or sleeps with it, owes what it has owed.
LEMMA PaceFits ==
    ASSUME DeadlineInv, NEW j \in Posters, Pace(j) \/ Slept(j)
    PROVE  DeadlineInv'
  <1> DEFINE delay == Gap - since[ChannelOf[j]]
             start == Enters(j, "post")
             wait == [Enters(j, "sleep") EXCEPT !.due = delay]
  <1>1. /\ reply[j] \in ReplyRecords /\ reply[j].stage \in {"lock", "sleep"}
        /\ since \in [Channels -> Int] /\ delay \in Int
    BY ReplyOf, ReplyAssumption DEF Pace, Slept
  <1>2. since' \in [Channels -> Int]
    BY <1>1 DEF Pace, Slept, Stamp
  <1>3. start = [Enters(j, "post") EXCEPT !.due = reply[j].due] /\ reply[j].due \in Int
    BY <1>1 DEF Enters, ReplyRecords
  <1>4. start \in ReplyRecords /\ (j \in Jobs /\ ~Local(settings) => Fits(start))
    BY <1>1, <1>3, MayPost
  <1>5. wait \in ReplyRecords /\ (j \in Jobs /\ ~Local(settings) => Fits(wait))
    BY <1>1, MayPost
  <1>6. Becomes(j, start) \/ Becomes(j, wait)
    BY DEF Pace, Slept
  <1> HIDE DEF start, wait
  <1>7. CASE Becomes(j, start)
    BY <1>2, <1>4, <1>7, OneReply
  <1>8. CASE Becomes(j, wait)
    BY <1>2, <1>5, <1>8, OneReply
  <1> QED
    BY <1>6, <1>7, <1>8

\* A post that returns is owed no more; the error post is made in time only.
LEMMA PostReturnsFits ==
    ASSUME DeadlineInv, NEW j \in Posters, PostReturns(j)
    PROVE  DeadlineInv'
  <1>1. /\ reply[j] \in ReplyRecords /\ reply[j].stage = "post"
        /\ since' \in [Channels -> Int]
        /\ settings.postTimeout \in Nat /\ Budget \in Int
    BY ReplyOf, SettingsTypes DEF PostReturns, Calm
  <1>2. ASSUME reply[j].left > 1, Posted(j, Posting(j, reply[j].left - 1))
        PROVE  DeadlineInv'
    <2> DEFINE r == [Posting(j, reply[j].left - 1) EXCEPT !.posted = TRUE, !.seen = TRUE]
    <2>1. reply[j].left - 1 \in Nat
      BY <1>1, <1>2 DEF ReplyRecords
    <2>2. /\ r \in ReplyRecords /\ r.stage = "lock" /\ r.left = reply[j].left - 1
          /\ r.age = reply[j].age /\ r.waited = reply[j].waited /\ r.asked = reply[j].asked
      <3> DEFINE e == Posting(j, reply[j].left - 1)
      <3>1. /\ e \in ReplyRecords /\ e.stage = "lock" /\ e.left = reply[j].left - 1
            /\ e.age = reply[j].age /\ e.waited = reply[j].waited /\ e.asked = reply[j].asked
        BY <1>1, <2>1, PostingStage
      <3>2. r = [e EXCEPT !.posted = TRUE, !.seen = TRUE]
        OBVIOUS
      <3> HIDE DEF e, r
      <3> QED
        BY <3>1, <3>2, Marked
    <2> HIDE DEF r
    <2>3. ASSUME j \in Jobs, ~Local(settings) PROVE Fits(r)
      <3> DEFINE p == settings.postTimeout
                 rest == (reply[j].left - 1) * p
      <3>1. /\ reply[j].age - reply[j].waited + ((p - reply[j].spent) + rest)
                <= TimeFor(reply[j])
            /\ reply[j].spent <= p
        BY <1>1, <2>3, ReplyOf DEF Fits, Owed
      <3>2. rest \in Nat
        BY <1>1, <2>1, OneFactor
      <3>3. TimeFor(r) = TimeFor(reply[j]) /\ TimeFor(r) \in Int
        BY <1>1, <2>2, ReplyOf, EnoughTime DEF TimeFor, Early
      <3>4. r.age - r.waited + rest <= TimeFor(r)
        <4>1. reply[j].age \in Nat /\ reply[j].waited \in Nat /\ reply[j].spent \in Nat
          BY <1>1 DEF ReplyRecords
        <4> HIDE DEF rest
        <4> QED
          BY <1>1, <2>2, <3>1, <3>2, <3>3, <4>1
      <3>5. r.left >= 1
        BY <1>1, <1>2, <2>2 DEF ReplyRecords
      <3> QED
        BY <2>2, <3>4, <3>5, TextFits
    <2> QED
      BY <1>1, <1>2, <2>2, <2>3, OneReply DEF Posted, r
  <1>3. ASSUME NEW s \in {"commit", "fail", "clean", "done"},
               NEW r, r \in {[Enters(j, s) EXCEPT !.posted = TRUE, !.seen = TRUE],
                             Enters(j, s)},
               Becomes(j, r)
        PROVE  DeadlineInv'
    <2>1. /\ r \in ReplyRecords /\ r.stage = s
          /\ r.age = reply[j].age /\ r.waited = reply[j].waited /\ r.asked = reply[j].asked
      <3> DEFINE e == Enters(j, s)
      <3>1. /\ e \in ReplyRecords /\ e.stage = s
            /\ e.age = reply[j].age /\ e.waited = reply[j].waited /\ e.asked = reply[j].asked
        BY <1>1, EntersStage DEF ReplyStages
      <3>2. r \in {[e EXCEPT !.posted = TRUE, !.seen = TRUE], e}
        BY <1>3
      <3> HIDE DEF e
      <3>3. CASE r = e
        BY <3>1, <3>3
      <3>4. CASE r = [e EXCEPT !.posted = TRUE, !.seen = TRUE]
        BY <3>1, <3>4, Marked
      <3> QED
        BY <3>2, <3>3, <3>4
    <2>2. j \in Jobs /\ ~Local(settings) => Fits(r)
      BY <2>1, OwesNothing
    <2> QED
      BY <1>1, <1>3, <2>1, <2>2, OneReply
  <1>4. ASSUME NEW s \in AfterPosts(j), Posted(j, Enters(j, s)) PROVE DeadlineInv'
    <2>1. s \in {"commit", "fail", "clean", "done"}
      BY <1>4 DEF AfterPosts
    <2> QED
      BY <1>3, <1>4, <2>1 DEF Posted
  <1>5. ASSUME Becomes(j, Enters(j, PostFailed(j))) PROVE DeadlineInv'
    <2>1. PostFailed(j) \in {"commit", "fail", "clean", "done"}
      BY DEF PostFailed
    <2> QED
      BY <1>3, <1>5, <2>1
  <1> QED
    BY <1>2, <1>4, <1>5 DEF PostReturns

-------------------------------------------------------------------------------
\* What follows a failure, and what ends a reply.
LEMMA FailFits ==
    ASSUME DeadlineInv, NEW j \in Posters, Fail(j)
    PROVE  DeadlineInv'
  <1> DEFINE report == [Posting(j, 1) EXCEPT !.error = TRUE]
             stop == Enters(j, "clean")
  <1>1. /\ reply[j] \in ReplyRecords /\ since' \in [Channels -> Int]
        /\ settings.postTimeout \in Nat /\ Budget \in Int
    BY ReplyOf, SettingsTypes DEF Fail, Calm
  <1>2. /\ report \in ReplyRecords /\ report.stage = "lock" /\ report.left = 1
        /\ report.age = reply[j].age /\ report.waited = reply[j].waited /\ report.asked = reply[j].asked
    <2> DEFINE e == Posting(j, 1)
    <2>1. /\ e \in ReplyRecords /\ e.stage = "lock" /\ e.left = 1
          /\ e.age = reply[j].age /\ e.waited = reply[j].waited /\ e.asked = reply[j].asked
      BY <1>1, PostingStage
    <2>2. report = [e EXCEPT !.error = TRUE]
      OBVIOUS
    <2> HIDE DEF e, report
    <2> QED
      BY <2>1, <2>2, Marked
  <1>3. /\ stop \in ReplyRecords /\ stop.stage = "clean"
        /\ stop.age = reply[j].age /\ stop.waited = reply[j].waited /\ stop.asked = reply[j].asked
    BY <1>1, EntersStage DEF ReplyStages
  <1> HIDE DEF report, stop
  <1>4. ASSUME HasTime(j), Becomes(j, report) PROVE DeadlineInv'
    <2>1. ASSUME j \in Jobs, ~Local(settings) PROVE Fits(report)
      <3>1. report.age - report.waited + settings.postTimeout <= Budget
        BY <1>1, <1>2, <1>4 DEF HasTime, ReplyRecords
      <3> QED
        BY <1>2, <2>1, <3>1, PostFits
    <2> QED
      BY <1>1, <1>2, <1>4, <2>1, OneReply
  <1>5. ASSUME Becomes(j, stop) PROVE DeadlineInv'
    <2>1. j \in Jobs /\ ~Local(settings) => Fits(stop)
      BY <1>3, OwesNothing
    <2> QED
      BY <1>1, <1>3, <1>5, <2>1, OneReply
  <1> QED
    BY <1>4, <1>5 DEF Fail, report, stop

\* The status is cleared only when the deadline leaves time for it.
LEMMA CleanFits ==
    ASSUME DeadlineInv, NEW j \in Posters, Clean(j)
    PROVE  DeadlineInv'
  <1>1. /\ reply[j] \in ReplyRecords /\ since' \in [Channels -> Int]
        /\ settings.postTimeout \in Nat /\ Budget \in Int
    BY ReplyOf, SettingsTypes DEF Clean, Calm
  <1>2. ASSUME NEW s \in {"clear", "done"}, s = "clear" => HasTime(j),
               Becomes(j, Enters(j, s))
        PROVE  DeadlineInv'
    <2> DEFINE r == Enters(j, s)
    <2>1. /\ r \in ReplyRecords /\ r.stage = s /\ r.spent = 0
          /\ r.age = reply[j].age /\ r.waited = reply[j].waited /\ r.asked = reply[j].asked
      BY <1>1, <1>2, EntersStage DEF ReplyStages
    <2> HIDE DEF r
    <2>2. ASSUME j \in Jobs, ~Local(settings), s = "clear" PROVE Fits(r)
      <3>1. Owed(r) = settings.postTimeout - 0
        BY <2>1, <2>2 DEF Owed
      <3>2. r.age - r.waited + (settings.postTimeout - 0) <= Budget
        BY <1>1, <1>2, <2>1, <2>2 DEF HasTime, ReplyRecords
      <3>3. TimeFor(r) \in Int /\ Budget <= TimeFor(r)
        BY <1>1, ReplyOf, EnoughTime
      <3>4. r.age - r.waited + (settings.postTimeout - 0) <= TimeFor(r)
        BY <1>1, <2>1, <3>2, <3>3 DEF ReplyRecords
      <3> QED
        BY <1>1, <2>1, <2>2, <3>1, <3>4 DEF Fits, Early
    <2>3. ASSUME j \in Jobs, ~Local(settings), s = "done" PROVE Fits(r)
      BY <2>1, <2>3, OwesNothing
    <2> QED
      BY <1>1, <1>2, <2>1, <2>2, <2>3, OneReply DEF r
  <1> QED
    BY <1>2 DEF Clean

\* The last steps of a reply owe nothing.
LEMMA LastFits ==
    ASSUME DeadlineInv, NEW j \in Posters, Commits(j) \/ ClearReturns(j)
    PROVE  DeadlineInv'
  <1>1. reply[j] \in ReplyRecords /\ since' \in [Channels -> Int]
    BY ReplyOf DEF Commits, ClearReturns, Calm
  <1>2. PICK r : /\ Becomes(j, r)
                 /\ \/ r = Enters(j, "clean")
                    \/ \E ok \in BOOLEAN :
                         r = [Enters(j, "done") EXCEPT !.shown = ~ok, !.unsure = @ \/ ~ok]
    BY DEF Commits, ClearReturns
  <1>3. /\ r \in ReplyRecords /\ r.stage \in {"clean", "done"}
        /\ r.age = reply[j].age /\ r.waited = reply[j].waited /\ r.asked = reply[j].asked
    <2>1. CASE r = Enters(j, "clean")
      BY <1>1, <2>1, EntersStage DEF ReplyStages
    <2>2. ASSUME NEW ok \in BOOLEAN,
                 r = [Enters(j, "done") EXCEPT !.shown = ~ok, !.unsure = @ \/ ~ok]
          PROVE  <1>3
      <3> DEFINE e == Enters(j, "done")
      <3>1. /\ e \in ReplyRecords /\ e.stage = "done"
            /\ e.age = reply[j].age /\ e.waited = reply[j].waited /\ e.asked = reply[j].asked
        BY <1>1, EntersStage DEF ReplyStages
      <3>2. r = [e EXCEPT !.shown = ~ok, !.unsure = e.unsure \/ ~ok]
        BY <2>2
      <3> HIDE DEF e
      <3> QED
        BY <3>1, <3>2, Marked
    <2> QED
      BY <1>2, <2>1, <2>2
  <1>4. j \in Jobs /\ ~Local(settings) => Fits(r)
    BY <1>3, OwesNothing
  <1> QED
    BY <1>1, <1>2, <1>3, <1>4, OneReply

-------------------------------------------------------------------------------
\* Time passes.  A reply that waits has its waiting added to the budget; the time
\* of a call is taken from what the call may take; nothing else takes time.
LEMMA OlderFits ==
    ASSUME DeadlineInv, NEW j \in Posters, MayGoOn(j)
    PROVE  /\ Older(j) \in ReplyRecords
           /\ j \in Jobs /\ ~Local(settings) => Fits(Older(j))
  <1> DEFINE r == Older(j)
             C == ProviderCalls(settings)
             t == settings.timeout
             p == settings.postTimeout
  <1>1. /\ reply[j] \in ReplyRecords /\ Budget \in Int
        /\ t \in Nat /\ p \in Nat /\ C \in Nat
    BY ReplyOf, SettingsTypes
  <1>2. CASE Idle(j)
    BY <1>1, <1>2, ReplyOf DEF Older
  <1>3. CASE ~Idle(j)
    <2> DEFINE spent == IF reply[j].stage = "lock" THEN reply[j].spent ELSE reply[j].spent + 1
               waited == IF reply[j].stage \in Waits THEN reply[j].waited + 1
                         ELSE reply[j].waited
               age == reply[j].age + 1
    <2>1. spent \in Nat /\ waited \in Nat /\ age \in Nat
      BY <1>1 DEF ReplyRecords
    <2>2. r = [reply[j] EXCEPT !.age = age, !.spent = spent, !.waited = waited]
      BY <1>3 DEF Older
    <2> HIDE DEF spent, waited, age, r
    <2>3. /\ r \in ReplyRecords /\ r.stage = reply[j].stage
          /\ r.age = age /\ r.spent = spent /\ r.waited = waited
          /\ r.asked = reply[j].asked /\ r.left = reply[j].left
      BY <1>1, <2>1, <2>2 DEF ReplyRecords
    <2>4. ASSUME j \in Jobs, ~Local(settings) PROVE Fits(r)
      <3>1. Fits(reply[j]) /\ TimeFor(r) = TimeFor(reply[j])
        BY <2>3, <2>4, ReplyOf DEF TimeFor
      <3>2. ASSUME reply[j].stage \in {"read", "lock", "sleep"} PROVE Fits(r)
        <4>1. Owed(r) = Owed(reply[j])
          BY <2>3, <3>2 DEF Owed
        <4>2. /\ r.age - r.waited = reply[j].age - reply[j].waited
              /\ reply[j].age <= reply[j].waited => r.age <= r.waited
          BY <1>1, <2>3, <3>2 DEF age, waited, Waits, ReplyRecords
        <4> QED
          BY <2>3, <3>1, <3>2, <4>1, <4>2 DEF Fits
      <3>3. ASSUME reply[j].stage = "commit" PROVE Fits(r)
        <4>1. Owed(r) = 0 /\ Owed(reply[j]) = 0
          BY <2>3, <3>3 DEF Owed
        <4>2. r.age - r.waited = reply[j].age - reply[j].waited
          BY <1>1, <2>3, <3>3 DEF age, waited, Waits, ReplyRecords
        <4> QED
          BY <2>3, <3>1, <3>3, <4>1, <4>2 DEF Fits
      <3>4. ASSUME reply[j].stage = "status" PROVE Fits(r)
        <4>1. /\ r.age = reply[j].age + 1 /\ r.waited = reply[j].waited
              /\ r.spent = reply[j].spent + 1 /\ reply[j].spent < p
          BY <2>3, <3>4 DEF age, waited, spent, Waits, MayGoOn, StageLimit, Idle
        <4>2. /\ Owed(reply[j]) = (p - reply[j].spent) + C * t + p
              /\ Owed(r) = (p - r.spent) + C * t + p
          BY <2>3, <3>4 DEF Owed
        <4>3. C * t \in Nat
          BY <1>1, OneFactor
        <4>4. r.age - r.waited + Owed(r) = reply[j].age - reply[j].waited + Owed(reply[j])
          <5> HIDE DEF C, t, p
          <5> QED
            BY <1>1, <4>1, <4>2, <4>3 DEF ReplyRecords
        <4>5. r.spent <= p
          BY <1>1, <4>1 DEF ReplyRecords
        <4> QED
          BY <2>3, <3>1, <3>4, <4>4, <4>5 DEF Fits
      <3>5. ASSUME reply[j].stage = "ask" PROVE Fits(r)
        <4> DEFINE rest == (C - reply[j].asked) * t
        <4>1. /\ r.age = reply[j].age + 1 /\ r.waited = reply[j].waited
              /\ r.spent = reply[j].spent + 1 /\ reply[j].spent < t
          BY <2>3, <3>5 DEF age, waited, spent, Waits, MayGoOn, StageLimit, Idle
        <4>2. /\ Owed(reply[j]) = (t - reply[j].spent) + rest + p
              /\ Owed(r) = (t - r.spent) + rest + p
          BY <2>3, <3>5 DEF Owed
        <4>3. C - reply[j].asked \in Nat
          BY <1>1, <3>1, <3>5 DEF Fits, ReplyRecords
        <4>4. rest \in Nat
          BY <1>1, <4>3, OneFactor
        <4>5. r.age - r.waited + Owed(r) = reply[j].age - reply[j].waited + Owed(reply[j])
          <5> HIDE DEF C, t, p, rest
          <5> QED
            BY <1>1, <4>1, <4>2, <4>4 DEF ReplyRecords
        <4>6. r.spent <= t
          BY <1>1, <4>1 DEF ReplyRecords
        <4> QED
          BY <2>3, <3>1, <3>5, <4>5, <4>6 DEF Fits
      <3>6. ASSUME reply[j].stage \in {"post", "clear"} PROVE Fits(r)
        <4> DEFINE rest == IF reply[j].stage = "post" THEN (reply[j].left - 1) * p ELSE 0
        <4>1. /\ r.age = reply[j].age + 1 /\ r.waited = reply[j].waited
              /\ r.spent = reply[j].spent + 1 /\ reply[j].spent < p
          BY <2>3, <3>6 DEF age, waited, spent, Waits, MayGoOn, StageLimit, Idle
        <4>2. Owed(reply[j]) = (p - reply[j].spent) + rest /\ Owed(r) = (p - r.spent) + rest
          BY <1>1, <2>3, <3>6, <4>1 DEF Owed, ReplyRecords
        <4>3. rest \in Int
          <5>1. reply[j].left - 1 \in Int
            BY <1>1 DEF ReplyRecords
          <5> QED
            BY <1>1, <5>1
        <4>4. r.age - r.waited + Owed(r) = reply[j].age - reply[j].waited + Owed(reply[j])
          <5> HIDE DEF rest
          <5> QED
            BY <1>1, <4>1, <4>2, <4>3 DEF ReplyRecords
        <4>5. r.spent <= p
          BY <1>1, <4>1 DEF ReplyRecords
        <4> QED
          BY <2>3, <3>1, <3>6, <4>4, <4>5 DEF Fits
      <3>7. reply[j].stage \notin {"fail", "clean"}
        BY <1>1, <1>3 DEF MayGoOn, StageLimit, Idle, ReplyRecords
      <3> QED
        BY <1>1, <1>3, <3>2, <3>3, <3>4, <3>5, <3>6, <3>7 DEF ReplyRecords, ReplyStages, Idle
    <2> QED
      BY <2>3, <2>4 DEF r
  <1> QED
    BY <1>2, <1>3

\* What passes of the time is owed no more, or is a wait.
LEMMA TickFits ==
    ASSUME DeadlineInv, ReplyTick
    PROVE  DeadlineInv'
  <1>1. /\ settings' = settings
        /\ reply' = [j \in Posters |-> Older(j)]
        /\ \A j \in Posters : MayGoOn(j)
        /\ since' = [c \in Channels |-> IF since[c] < Gap THEN since[c] + 1 ELSE Gap]
    BY DEF ReplyTick
  <1>2. since' \in [Channels -> Int]
    BY <1>1, ReplyAssumption DEF DeadlineInv, ReplyTypes
  <1>3. reply' \in [Posters -> ReplyRecords]
    BY <1>1, OlderFits
  <1>4. ReplyTypes'
    BY <1>1, <1>2, <1>3 DEF DeadlineInv, ReplyTypes, Accepted, Local, WorstCase,
                            ProviderCalls, PlatformCalls
  <1>5. ASSUME ~Local(settings'), NEW j \in Jobs PROVE Fits(reply[j])'
    <2>1. j \in Posters /\ ~Local(settings)
      BY <1>1, <1>5 DEF Posters
    <2>2. Fits(Older(j))
      BY <1>1, <1>5, <2>1, OlderFits
    <2>3. Fits(reply'[j])
      BY <1>1, <2>1, <2>2
    <2> QED
      BY <1>1, <2>3 DEF Fits, Owed, TimeFor, WorstCase, ProviderCalls, PlatformCalls, Budget
  <1> QED
    BY <1>1, <1>4, <1>5 DEF DeadlineInv, Local

-------------------------------------------------------------------------------
\* A reply that has not been taken owes the worst case, which acceptance bounds.
LEMMA DeadlineStarts ==
    ASSUME settings \in Settings, Accepted(settings), ReplyInit
    PROVE  DeadlineInv
  <1>1. FreshReply \in ReplyRecords
    BY DEF FreshReply, ReplyRecords, ReplyStages
  <1>2. ReplyTypes
    BY <1>1, ReplyAssumption DEF ReplyTypes, ReplyInit
  <1>3. ASSUME ~Local(settings), NEW j \in Jobs PROVE Fits(reply[j])
    <2>1. reply[j] = FreshReply
      BY DEF ReplyInit, Posters
    <2>2. /\ FreshReply.stage = "queued" /\ FreshReply.age = 0 /\ FreshReply.waited = 0
          /\ FreshReply.asked = 0
      BY DEF FreshReply
    <2>3. Owed(reply[j]) = WorstCase(settings)
      BY <2>1, <2>2 DEF Owed
    <2>4. WorstCase(settings) <= Budget /\ WorstCase(settings) \in Int /\ Budget \in Int
      BY <1>3, SettingsTypes, OneFactor DEF WorstCase
    <2> QED
      BY <2>1, <2>2, <2>3, <2>4 DEF Fits, TimeFor, Early
  <1> QED
    BY <1>2, <1>3 DEF DeadlineInv

\* Every step keeps the invariant.
LEMMA DeadlineHolds ==
    ASSUME DeadlineInv, [ReplyNext]_replyVars
    PROVE  DeadlineInv'
  <1>1. CASE ReplyTick
    BY <1>1, TickFits
  <1>2. ASSUME NEW j \in Posters, ReplyStep(j) PROVE DeadlineInv'
    BY <1>2, TakeFits, ReadFits, StatusFits, ProviderFits, PaceFits, PostReturnsFits,
       FailFits, CleanFits, LastFits DEF ReplyStep
  <1>3. CASE UNCHANGED replyVars
    BY <1>3 DEF replyVars, DeadlineInv, ReplyTypes, Fits, Owed, TimeFor, Accepted, Local,
                WorstCase, ProviderCalls, PlatformCalls, Budget
  <1> QED
    BY <1>1, <1>2, <1>3 DEF ReplyNext

\* What has been used of the budget is in it, for nothing owed is negative.
LEMMA DeadlineKept ==
    ASSUME DeadlineInv
    PROVE  SlackEndsInTime
  <1> SUFFICES ASSUME ~Local(settings), NEW j \in Jobs
               PROVE  \/ reply[j].age - reply[j].waited <= Budget
                      \/ /\ reply[j].asked = 0
                         /\ reply[j].age - reply[j].waited <= TextParts * settings.postTimeout
    BY DEF SlackEndsInTime
  <1>1. /\ settings \in Settings /\ Accepted(settings)
        /\ reply[j] \in ReplyRecords /\ Fits(reply[j])
    BY ReplyOf DEF Posters
  <1>2. Owed(reply[j]) \in Nat /\ TimeFor(reply[j]) \in Int
    BY <1>1, OwedIsNat, EnoughTime
  <1>3. reply[j].age - reply[j].waited <= TimeFor(reply[j])
    BY <1>1, <1>2 DEF Fits, ReplyRecords
  <1> QED
    BY <1>3 DEF TimeFor

\* Whatever a deployment sets within what load_config accepts, and however the calls
\* of a reply end, a worker of the Slack adapter that has asked the provider is done
\* within the budget but for its waits for the store and for the pacing: with any number
\* of workers, notices and channels, any gap between posts and any slowness of the store.
\* Of a text without a request, which the settings do not bound, nothing but the posts
\* makes it longer, however many they are.
THEOREM SlackDeadline == ReplySpec => []SlackEndsInTime
  <1>1. settings \in Settings /\ Accepted(settings) /\ ReplyInit => DeadlineInv
    BY DeadlineStarts
  <1>2. DeadlineInv /\ [ReplyNext]_replyVars => DeadlineInv'
    BY DeadlineHolds
  <1>3. DeadlineInv => SlackEndsInTime
    BY DeadlineKept
  <1> QED
    BY <1>1, <1>2, <1>3, PTL DEF ReplySpec

-------------------------------------------------------------------------------
(* The status that a thread displays. *)

\* What the marks on a reply say of the status: it is displayed only when the call to
\* set it has succeeded or may have had its effect, and a worker that is done leaves it
\* only when the call to clear it has failed or there was no time for one.
Honest(r) ==
    /\ r.shown => r.started \/ r.unsure
    /\ r.posted => r.seen
    /\ r.stage = "done" /\ r.shown /\ ~r.seen
        => r.unsure \/ ~(r.age + settings.postTimeout <= Budget)

StatusInv == \A j \in Jobs : Honest(reply[j])

\* Other marks are as they were.
SameMarks(r, s) ==
    /\ r.started = s.started /\ r.posted = s.posted /\ r.seen = s.seen
    /\ r.shown = s.shown /\ r.unsure = s.unsure

\* A new stage changes none of the marks.
LEMMA EntersMarks ==
    ASSUME NEW j \in Posters, reply[j] \in ReplyRecords, NEW s, NEW n \in Nat
    PROVE  /\ SameMarks(Enters(j, s), reply[j]) /\ Enters(j, s).stage = s
           /\ SameMarks(Posting(j, n), reply[j]) /\ Posting(j, n).stage = "lock"
           /\ SameMarks([Posting(j, n) EXCEPT !.error = TRUE], reply[j])
           /\ [Posting(j, n) EXCEPT !.error = TRUE].stage = "lock"
  BY DEF Enters, Posting, SameMarks, ReplyRecords

\* A reply that is not done by the step stays honest when its marks stay.
LEMMA KeepsMarks ==
    ASSUME NEW r, NEW s, Honest(s), SameMarks(r, s), r.stage # "done"
    PROVE  Honest(r)
  BY DEF Honest, SameMarks

\* A step of one worker has to be judged by its own reply alone.
LEMMA OneHonest ==
    ASSUME DeadlineInv, StatusInv, NEW k \in Posters, NEW r, Becomes(k, r),
           k \in Jobs => Honest(r)
    PROVE  StatusInv'
  <1>1. settings' = settings /\ reply' = [reply EXCEPT ![k] = r]
    BY DEF Becomes
  <1>2. ASSUME NEW j \in Jobs PROVE Honest(reply[j])'
    <2>1. Honest(reply'[j])
      BY <1>1, <1>2 DEF DeadlineInv, ReplyTypes, StatusInv, Posters
    <2> QED
      BY <1>1, <2>1 DEF Honest, Budget
  <1> QED
    BY <1>2 DEF StatusInv

\* What the calls of a worker leave of the status.
LEMMA StatusHonest ==
    ASSUME DeadlineInv, StatusInv, NEW j \in Posters, StatusReturns(j)
    PROVE  StatusInv'
  <1>1. PICK ok \in BOOLEAN, shown \in BOOLEAN :
            /\ ok => shown
            /\ Becomes(j, [Enters(j, "ask") EXCEPT !.asked = 1, !.started = ok,
                               !.shown = shown, !.unsure = ~ok])
    BY DEF StatusReturns
  <1> DEFINE e == Enters(j, "ask")
             failed == ~ok
             r == [e EXCEPT !.asked = 1, !.started = ok, !.shown = shown, !.unsure = failed]
  <1>2. e \in ReplyRecords /\ e.stage = "ask" /\ SameMarks(e, reply[j])
    BY ReplyOf, EntersStage, EntersMarks DEF ReplyStages
  <1>3. failed \in BOOLEAN /\ (ok \/ failed)
    OBVIOUS
  <1>4. Becomes(j, r)
    BY <1>1
  <1> HIDE DEF e, failed
  <1>5. /\ r.stage = "ask" /\ r.started = ok /\ r.unsure = failed
        /\ r.posted = reply[j].posted /\ r.seen = reply[j].seen
    BY <1>2 DEF ReplyRecords, SameMarks
  <1>6. j \in Jobs => Honest(r)
    BY <1>3, <1>5 DEF Honest, StatusInv
  <1> QED
    BY <1>4, <1>6, OneHonest

\* A post removes the status, and the worker notes the posts that it knows of.
LEMMA PostHonest ==
    ASSUME DeadlineInv, StatusInv, NEW j \in Posters, PostReturns(j)
    PROVE  StatusInv'
  <1>1. reply[j] \in ReplyRecords
    BY ReplyOf
  <1>2. ASSUME NEW e \in ReplyRecords, SameMarks(e, reply[j]),
               j \in Jobs => e.stage # "done", Posted(j, e)
        PROVE  StatusInv'
    <2> DEFINE r == [e EXCEPT !.posted = TRUE, !.seen = TRUE]
    <2>1. /\ r.stage = e.stage /\ r.seen /\ r.shown = e.shown
          /\ r.started = e.started /\ r.unsure = e.unsure
      BY <1>2 DEF ReplyRecords
    <2>2. j \in Jobs => Honest(r)
      <3> HIDE DEF r
      <3> QED
        BY <1>2, <2>1 DEF Honest, SameMarks, StatusInv
    <2> QED
      BY <1>2, <2>2, OneHonest DEF Posted
  <1>3. ASSUME reply[j].left > 1, Posted(j, Posting(j, reply[j].left - 1))
        PROVE  StatusInv'
    <2>1. reply[j].left - 1 \in Nat
      BY <1>1, <1>3 DEF ReplyRecords
    <2> QED
      BY <1>1, <1>2, <1>3, <2>1, PostingStage, EntersMarks
  <1>4. ASSUME NEW s \in AfterPosts(j), Posted(j, Enters(j, s)) PROVE StatusInv'
    <2>1. s \in ReplyStages /\ (j \in Jobs => s # "done")
      BY <1>4, ReplyAssumption DEF AfterPosts, ReplyStages
    <2> QED
      BY <1>1, <1>2, <1>4, <2>1, EntersStage, EntersMarks
  <1>5. ASSUME Becomes(j, Enters(j, PostFailed(j))) PROVE StatusInv'
    <2>1. j \in Jobs => PostFailed(j) # "done"
      BY ReplyAssumption DEF PostFailed
    <2>2. j \in Jobs => Honest(Enters(j, PostFailed(j)))
      BY <1>1, <2>1, EntersMarks, KeepsMarks DEF StatusInv
    <2> QED
      BY <1>5, <2>2, OneHonest
  <1> QED
    BY <1>3, <1>4, <1>5 DEF PostReturns

\* A worker leaves without clearing when there is nothing to clear, or no time.
LEMMA CleanHonest ==
    ASSUME DeadlineInv, StatusInv, NEW j \in Posters, Clean(j)
    PROVE  StatusInv'
  <1> DEFINE clear == reply[j].started /\ ~reply[j].posted /\ HasTime(j)
             s == IF clear THEN "clear" ELSE "done"
             r == Enters(j, s)
  <1>1. reply[j] \in ReplyRecords
    BY ReplyOf
  <1>2. SameMarks(r, reply[j]) /\ r.stage = s /\ r.age = reply[j].age
    BY <1>1, EntersMarks, EntersStage DEF ReplyStages
  <1>3. Becomes(j, r)
    BY DEF Clean
  <1> HIDE DEF r
  <1>4. ASSUME j \in Jobs PROVE Honest(r)
    <2>1. Honest(reply[j])
      BY <1>4 DEF StatusInv
    <2>2. CASE clear
      BY <1>2, <2>1, <2>2, KeepsMarks
    <2>3. CASE ~clear
      BY <1>2, <2>1, <2>3 DEF Honest, SameMarks, HasTime
    <2> QED
      BY <2>2, <2>3
  <1> QED
    BY <1>3, <1>4, OneHonest

\* A call that clears the status has done so, or has failed.
LEMMA ClearHonest ==
    ASSUME DeadlineInv, StatusInv, NEW j \in Posters, ClearReturns(j)
    PROVE  StatusInv'
  <1>1. PICK ok \in BOOLEAN :
            Becomes(j, [Enters(j, "done") EXCEPT !.shown = ~ok, !.unsure = @ \/ ~ok])
    BY DEF ClearReturns
  <1> DEFINE e == Enters(j, "done")
             failed == ~ok
             u == e.unsure \/ failed
             r == [e EXCEPT !.shown = failed, !.unsure = u]
  <1>2. e \in ReplyRecords /\ SameMarks(e, reply[j])
    BY ReplyOf, EntersStage, EntersMarks DEF ReplyStages
  <1>3. failed \in BOOLEAN /\ u \in BOOLEAN /\ (failed => u)
    BY <1>2 DEF ReplyRecords
  <1>4. Becomes(j, r)
    BY <1>1
  <1> HIDE DEF e, failed, u
  <1>5. /\ r.shown = failed /\ r.unsure = u
        /\ r.posted = reply[j].posted /\ r.seen = reply[j].seen
    BY <1>2 DEF ReplyRecords, SameMarks
  <1>6. j \in Jobs => Honest(r)
    <2> HIDE DEF r
    <2> QED
      BY <1>3, <1>5 DEF Honest, StatusInv
  <1> QED
    BY <1>4, <1>6, OneHonest

\* The other steps of a worker enter a stage or begin a post.
LEMMA OtherHonest ==
    ASSUME DeadlineInv, StatusInv, NEW j \in Posters,
           \/ Take(j) \/ Read(j) \/ ProviderReturns(j) \/ Pace(j) \/ Slept(j)
           \/ Commits(j) \/ Fail(j)
    PROVE  StatusInv'
  <1>1. reply[j] \in ReplyRecords
    BY ReplyOf
  <1>2. ASSUME NEW r, Becomes(j, r), SameMarks(r, reply[j]), r.stage # "done"
        PROVE  StatusInv'
    BY <1>2, KeepsMarks, OneHonest DEF StatusInv
  <1>3. ASSUME NEW s \in ReplyStages \ {"done"}, NEW n \in Nat,
               \/ Becomes(j, Enters(j, s))
               \/ Becomes(j, Posting(j, n))
               \/ Becomes(j, [Posting(j, n) EXCEPT !.error = TRUE])
        PROVE  StatusInv'
    BY <1>1, <1>2, <1>3, EntersMarks
  <1>4. ASSUME NEW n, Becomes(j, [Enters(j, "ask") EXCEPT !.asked = n])
        PROVE  StatusInv'
    <2>1. /\ [Enters(j, "ask") EXCEPT !.asked = n].stage = "ask"
          /\ SameMarks([Enters(j, "ask") EXCEPT !.asked = n], reply[j])
      BY <1>1 DEF Enters, SameMarks, ReplyRecords
    <2> QED
      BY <1>2, <1>4, <2>1
  <1>5. ASSUME NEW d, Becomes(j, [Enters(j, "sleep") EXCEPT !.due = d])
        PROVE  StatusInv'
    <2>1. /\ [Enters(j, "sleep") EXCEPT !.due = d].stage = "sleep"
          /\ SameMarks([Enters(j, "sleep") EXCEPT !.due = d], reply[j])
      BY <1>1 DEF Enters, SameMarks, ReplyRecords
    <2> QED
      BY <1>2, <1>5, <2>1
  <1>6. CASE Take(j)
    BY <1>3, <1>6 DEF Take, ReplyStages
  <1>7. CASE Read(j)
    <2>1. \A n \in 1 .. TextParts : n \in Nat
      BY ReplyOf, SettingsTypes
    <2> QED
      BY <1>3, <1>4, <1>7, <2>1 DEF Read, ReplyStages
  <1>8. CASE ProviderReturns(j)
    <2>1. settings.parts \in Nat
      BY ReplyOf, SettingsTypes
    <2>2. ASSUME Becomes(j, [Enters(j, "ask") EXCEPT !.asked = @ + 1]) PROVE StatusInv'
      BY <1>4, <2>2
    <2> QED
      BY <1>3, <1>8, <2>1, <2>2 DEF ProviderReturns, ReplyStages
  <1>9. CASE Pace(j) \/ Slept(j)
    BY <1>3, <1>5, <1>9 DEF Pace, Slept, ReplyStages
  <1>10. CASE Commits(j)
    BY <1>3, <1>10 DEF Commits, ReplyStages
  <1>11. CASE Fail(j)
    BY <1>3, <1>11 DEF Fail, ReplyStages
  <1> QED
    BY <1>6, <1>7, <1>8, <1>9, <1>10, <1>11

\* Nothing is displayed at first, and time alone changes nothing for a worker that is
\* done.
LEMMA StatusStarts ==
    ASSUME ReplyInit
    PROVE  StatusInv
  <1>1. \A j \in Jobs : reply[j] = FreshReply
    BY DEF ReplyInit, Posters
  <1>2. ~FreshReply.shown /\ ~FreshReply.posted
    BY DEF FreshReply
  <1> QED
    BY <1>1, <1>2 DEF StatusInv, Honest

\* Time changes no marks.
LEMMA TickHonest ==
    ASSUME DeadlineInv, StatusInv, ReplyTick
    PROVE  StatusInv'
  <1>1. settings' = settings /\ reply' = [j \in Posters |-> Older(j)]
    BY DEF ReplyTick
  <1>2. ASSUME NEW j \in Jobs PROVE Honest(reply[j])'
    <2>1. j \in Posters /\ reply[j] \in ReplyRecords /\ Honest(reply[j])
      BY ReplyOf DEF StatusInv, Posters
    <2>2. Honest(Older(j))
      <3>1. CASE Idle(j)
        BY <2>1, <3>1 DEF Older
      <3>2. CASE ~Idle(j)
        <4>1. SameMarks(Older(j), reply[j]) /\ Older(j).stage # "done"
          BY <2>1, <3>2 DEF Older, Idle, SameMarks, ReplyRecords
        <4> QED
          BY <2>1, <4>1, KeepsMarks
      <3> QED
        BY <3>1, <3>2
    <2>3. Honest(reply'[j])
      BY <1>1, <2>1, <2>2
    <2> QED
      BY <1>1, <2>3 DEF Honest, Budget
  <1> QED
    BY <1>2 DEF StatusInv

\* Every step keeps the marks honest.
LEMMA StatusHolds ==
    ASSUME DeadlineInv, StatusInv, [ReplyNext]_replyVars
    PROVE  StatusInv'
  <1>1. CASE ReplyTick
    BY <1>1, TickHonest
  <1>2. ASSUME NEW j \in Posters, ReplyStep(j) PROVE StatusInv'
    BY <1>2, StatusHonest, PostHonest, CleanHonest, ClearHonest, OtherHonest DEF ReplyStep
  <1>3. CASE UNCHANGED replyVars
    BY <1>3 DEF replyVars, StatusInv, Honest, Budget
  <1> QED
    BY <1>1, <1>2, <1>3 DEF ReplyNext

\* However the calls to Slack end, also those that fail after they have had their
\* effect, and in whatever order a reply fails, is reported and is cleaned up: the
\* thread goes on showing that an answer is being generated only when a call has failed
\* or no time was left for one.
THEOREM SlackStatusCleared == ReplySpec => []StatusCleared
  <1>1. settings \in Settings /\ Accepted(settings) /\ ReplyInit => DeadlineInv /\ StatusInv
    BY DeadlineStarts, StatusStarts
  <1>2. DeadlineInv /\ StatusInv /\ [ReplyNext]_replyVars => (DeadlineInv /\ StatusInv)'
    BY DeadlineHolds, StatusHolds
  <1>3. StatusInv => StatusCleared
    BY DEF StatusInv, Honest, StatusCleared, HasTime
  <1> QED
    BY <1>1, <1>2, <1>3, PTL DEF ReplySpec

-------------------------------------------------------------------------------
(* The pacing of the posts. *)

\* Who sleeps holds the lock, so that nobody else posts meanwhile, and what is left of
\* the sleep is what is missing from the gap.
Dozes(j) ==
    reply[j].stage = "sleep" =>
        /\ postLock = j
        /\ reply[j].spent <= reply[j].due
        /\ since[ChannelOf[j]] + reply[j].due = Gap + reply[j].spent

PaceInv ==
    /\ since \in [Channels -> 0 .. Gap]
    /\ \A j \in Posters : Dozes(j)

\* The distance to the last post is counted up to the gap.
LEMMA SinceOf ==
    ASSUME PaceInv, NEW j \in Posters
    PROVE  ChannelOf[j] \in Channels /\ since[ChannelOf[j]] \in 0 .. Gap /\ Gap \in Nat
  BY ReplyAssumption DEF PaceInv, Posters

\* A step that neither begins nor ends a sleep.
LEMMA UnpacedStep ==
    ASSUME DeadlineInv, PaceInv, NEW k \in Posters, NEW r, Becomes(k, r),
           r.stage \notin {"sleep", "post"}, Calm
    PROVE  PaceInv' /\ reply'[k].stage # "post"
  <1>1. reply' = [reply EXCEPT ![k] = r] /\ since' = since /\ postLock' = postLock
    BY DEF Becomes, Calm
  <1>2. \A j \in Posters : reply'[j] = IF j = k THEN r ELSE reply[j]
    BY <1>1 DEF DeadlineInv, ReplyTypes
  <1> QED
    BY <1>1, <1>2 DEF PaceInv, Dozes

\* A step that begins a post stamps the channel; nobody sleeps then but perhaps the
\* one who posts.
LEMMA StampStep ==
    ASSUME DeadlineInv, PaceInv, NEW k \in Posters, Becomes(k, Enters(k, "post")), Stamp(k),
           postLock \in {None, k}
    PROVE  PaceInv'
  <1>1. reply' = [reply EXCEPT ![k] = Enters(k, "post")]
    BY DEF Becomes
  <1>2. since' \in [Channels -> 0 .. Gap]
    <2>1. 0 \in 0 .. Gap
      BY ReplyAssumption
    <2> QED
      BY <2>1 DEF Stamp, PaceInv
  <1>3. ASSUME NEW j \in Posters PROVE reply'[j].stage # "sleep"
    <2>1. CASE j = k
      <3>1. Enters(k, "post").stage = "post"
        BY ReplyOf, EntersStage DEF ReplyStages
      <3> QED
        BY <1>1, <2>1, <3>1 DEF DeadlineInv, ReplyTypes
    <2>2. CASE j # k
      <3>1. reply'[j] = reply[j]
        BY <1>1, <2>2 DEF DeadlineInv, ReplyTypes
      <3>2. postLock # j
        BY <2>2, ReplyAssumption DEF Posters
      <3> QED
        BY <3>1, <3>2 DEF PaceInv, Dozes
    <2> QED
      BY <2>1, <2>2
  <1> QED
    BY <1>2, <1>3 DEF PaceInv, Dozes

\* Who need not sleep posts when the gap is over.
LEMMA PacePaced ==
    ASSUME DeadlineInv, PaceInv, NEW k \in Posters, Pace(k)
    PROVE  /\ PaceInv'
           /\ reply'[k].stage = "post" => since[ChannelOf[k]] = Gap
  <1> DEFINE delay == Gap - since[ChannelOf[k]]
             wait == [Enters(k, "sleep") EXCEPT !.due = delay]
  <1>1. /\ reply[k] \in ReplyRecords /\ postLock = None
        /\ since[ChannelOf[k]] \in 0 .. Gap /\ Gap \in Nat
    BY ReplyOf, SinceOf DEF Pace
  <1>2. CASE delay <= 0 /\ Becomes(k, Enters(k, "post")) /\ Stamp(k)
    BY <1>1, <1>2, StampStep
  <1>3. CASE Becomes(k, wait) /\ postLock' = k /\ UNCHANGED since
    <2>1. wait.stage = "sleep" /\ wait.spent = 0 /\ wait.due = delay
      BY <1>1 DEF Enters, ReplyRecords
    <2> HIDE DEF wait
    <2>2. reply' = [reply EXCEPT ![k] = wait]
      BY <1>3 DEF Becomes
    <2>3. \A j \in Posters : reply'[j] = IF j = k THEN wait ELSE reply[j]
      BY <2>2 DEF DeadlineInv, ReplyTypes
    <2>4. ASSUME NEW j \in Posters PROVE Dozes(j)'
      <3>1. CASE j = k
        BY <1>1, <1>3, <2>1, <2>3, <3>1 DEF Dozes
      <3>2. CASE j # k
        <4>1. reply[j].stage # "sleep"
          BY <1>1, ReplyAssumption DEF PaceInv, Dozes, Posters
        <4> QED
          BY <2>3, <3>2, <4>1 DEF Dozes
      <3> QED
        BY <3>1, <3>2
    <2>5. reply'[k].stage # "post"
      BY <2>1, <2>3
    <2> QED
      BY <1>3, <2>4, <2>5 DEF PaceInv
  <1> QED
    BY <1>2, <1>3 DEF Pace

\* Who has slept posts when the gap is over.
LEMMA SleptPaced ==
    ASSUME DeadlineInv, PaceInv, NEW k \in Posters, Slept(k)
    PROVE  PaceInv' /\ since[ChannelOf[k]] = Gap
  <1>1. /\ reply[k] \in ReplyRecords /\ Dozes(k)
        /\ since[ChannelOf[k]] \in 0 .. Gap /\ Gap \in Nat
    BY ReplyOf, SinceOf DEF PaceInv
  <1>2. postLock = k
    BY <1>1 DEF Slept, Dozes
  <1>3. PaceInv'
    BY <1>2, StampStep DEF Slept
  <1>4. since[ChannelOf[k]] = Gap
    BY <1>1 DEF Slept, Dozes, ReplyRecords
  <1> QED
    BY <1>3, <1>4

\* Of the other steps of a poster none begins a post.
LEMMA OtherPaced ==
    ASSUME DeadlineInv, PaceInv, NEW k \in Posters,
           \/ Take(k) \/ Read(k) \/ StatusReturns(k) \/ ProviderReturns(k)
           \/ PostReturns(k) \/ Commits(k) \/ Fail(k) \/ Clean(k) \/ ClearReturns(k)
    PROVE  PaceInv' /\ reply'[k].stage # "post"
  <1>1. reply[k] \in ReplyRecords
    BY ReplyOf
  <1>2. Calm
    BY DEF Take, Read, StatusReturns, ProviderReturns, PostReturns, Commits, Fail, Clean,
           ClearReturns
  <1>3. ASSUME NEW r, Becomes(k, r), r.stage \notin {"sleep", "post"}
        PROVE  PaceInv' /\ reply'[k].stage # "post"
    BY <1>2, <1>3, UnpacedStep
  <1>4. ASSUME NEW s \in ReplyStages PROVE Enters(k, s).stage = s
    BY <1>1, EntersStage
  <1>5. ASSUME NEW n PROVE Posting(k, n).stage = "lock"
    BY <1>1 DEF Posting, Enters, ReplyRecords
  <1>6. CASE Take(k) \/ Commits(k) \/ Clean(k)
    BY <1>3, <1>4, <1>5, <1>6 DEF Take, Commits, Clean, ReplyStages
  <1>7. CASE Read(k)
    <2>1. [Enters(k, "ask") EXCEPT !.asked = 1].stage = "ask"
      BY <1>1 DEF Enters, ReplyRecords
    <2> QED
      BY <1>3, <1>4, <1>5, <1>7, <2>1 DEF Read, ReplyStages
  <1>8. CASE StatusReturns(k)
    <2>1. \A ok, shown \in BOOLEAN :
            [Enters(k, "ask") EXCEPT !.asked = 1, !.started = ok, !.shown = shown,
                                     !.unsure = ~ok].stage = "ask"
      BY <1>1 DEF Enters, ReplyRecords
    <2> QED
      BY <1>3, <1>8, <2>1 DEF StatusReturns
  <1>9. CASE ProviderReturns(k)
    <2>1. [Enters(k, "ask") EXCEPT !.asked = @ + 1].stage = "ask"
      BY <1>1 DEF Enters, ReplyRecords
    <2> QED
      BY <1>3, <1>5, <1>9, <2>1 DEF ProviderReturns
  <1>10. CASE PostReturns(k)
    <2>1. ASSUME NEW e \in ReplyRecords, e.stage \notin {"sleep", "post"}, Posted(k, e)
          PROVE  PaceInv' /\ reply'[k].stage # "post"
      <3>1. [e EXCEPT !.posted = TRUE, !.seen = TRUE].stage = e.stage
        BY <2>1 DEF ReplyRecords
      <3> QED
        BY <1>3, <2>1, <3>1 DEF Posted
    <2>2. ASSUME reply[k].left > 1, Posted(k, Posting(k, reply[k].left - 1))
          PROVE  PaceInv' /\ reply'[k].stage # "post"
      <3>1. reply[k].left - 1 \in Nat
        BY <1>1, <2>2 DEF ReplyRecords
      <3> QED
        BY <1>1, <2>1, <2>2, <3>1, PostingStage
    <2>3. ASSUME NEW s \in AfterPosts(k), Posted(k, Enters(k, s))
          PROVE  PaceInv' /\ reply'[k].stage # "post"
      <3>1. s \in ReplyStages \ {"sleep", "post"}
        BY <2>3 DEF AfterPosts, ReplyStages
      <3> QED
        BY <1>1, <2>1, <2>3, <3>1, EntersStage
    <2>4. PostFailed(k) \in ReplyStages \ {"sleep", "post"}
      BY DEF PostFailed, ReplyStages
    <2> QED
      BY <1>3, <1>4, <1>10, <2>2, <2>3, <2>4 DEF PostReturns
  <1>11. CASE Fail(k)
    <2>1. [Posting(k, 1) EXCEPT !.error = TRUE].stage = "lock"
      BY <1>1 DEF Posting, Enters, ReplyRecords
    <2> QED
      BY <1>3, <1>4, <1>11, <2>1 DEF Fail, ReplyStages
  <1>12. CASE ClearReturns(k)
    <2>1. \A ok \in BOOLEAN :
            [Enters(k, "done") EXCEPT !.shown = ~ok, !.unsure = @ \/ ~ok].stage = "done"
      BY <1>1 DEF Enters, ReplyRecords
    <2> QED
      BY <1>3, <1>12, <2>1 DEF ClearReturns
  <1> QED
    BY <1>6, <1>7, <1>8, <1>9, <1>10, <1>11, <1>12

\* While time passes a sleep and the gap it fills shrink alike.
LEMMA TickPaced ==
    ASSUME DeadlineInv, PaceInv, ReplyTick
    PROVE  PaceInv' /\ \A j \in Posters : reply'[j].stage = reply[j].stage
  <1>1. /\ reply' = [j \in Posters |-> Older(j)] /\ postLock' = postLock
        /\ since' = [c \in Channels |-> IF since[c] < Gap THEN since[c] + 1 ELSE Gap]
        /\ \A j \in Posters : MayGoOn(j)
    BY DEF ReplyTick
  <1>2. ASSUME NEW c \in Channels PROVE since'[c] \in 0 .. Gap
    BY <1>1, ReplyAssumption DEF PaceInv
  <1>3. since' \in [Channels -> 0 .. Gap]
    BY <1>1, <1>2
  <1>4. ASSUME NEW j \in Posters
        PROVE  /\ reply'[j] = Older(j) /\ Older(j).stage = reply[j].stage
               /\ reply[j].stage = "sleep" =>
                    /\ Older(j).spent = reply[j].spent + 1 /\ Older(j).due = reply[j].due
                    /\ reply[j].spent < reply[j].due
    <2>1. reply[j] \in ReplyRecords /\ MayGoOn(j)
      BY <1>1, ReplyOf
    <2>2. Older(j).stage = reply[j].stage
      BY <2>1 DEF Older, ReplyRecords
    <2>3. ASSUME reply[j].stage = "sleep"
          PROVE  /\ Older(j).spent = reply[j].spent + 1 /\ Older(j).due = reply[j].due
                 /\ reply[j].spent < reply[j].due
      BY <2>1, <2>3 DEF Older, Idle, MayGoOn, StageLimit, ReplyRecords
    <2> QED
      BY <1>1, <2>2, <2>3
  <1>5. ASSUME NEW j \in Posters PROVE Dozes(j)'
    <2>1. /\ since[ChannelOf[j]] \in 0 .. Gap /\ Gap \in Nat /\ ChannelOf[j] \in Channels
          /\ reply[j] \in ReplyRecords /\ Dozes(j)
      BY ReplyOf, SinceOf DEF PaceInv
    <2>2. since'[ChannelOf[j]] = IF since[ChannelOf[j]] < Gap THEN since[ChannelOf[j]] + 1
                                 ELSE Gap
      BY <1>1, <2>1
    <2> QED
      BY <1>1, <1>4, <2>1, <2>2 DEF Dozes, ReplyRecords
  <1> QED
    BY <1>3, <1>4, <1>5 DEF PaceInv

\* Nobody sleeps or holds the lock at first.
LEMMA PaceStarts ==
    ASSUME ReplyInit
    PROVE  PaceInv
  <1>1. \A j \in Posters : reply[j].stage = "queued"
    BY DEF ReplyInit, FreshReply
  <1>2. since \in [Channels -> 0 .. Gap]
    BY ReplyAssumption DEF ReplyInit
  <1> QED
    BY <1>1, <1>2 DEF PaceInv, Dozes

\* A step keeps the invariant, and begins a post only when the gap is over.
BeginsPaced ==
    \A j \in Posters :
        reply[j].stage # "post" /\ reply'[j].stage = "post" => since[ChannelOf[j]] = Gap

\* Every step keeps the sleepers in time, and every post its distance.
LEMMA PaceHolds ==
    ASSUME DeadlineInv, PaceInv, [ReplyNext]_replyVars
    PROVE  PaceInv' /\ BeginsPaced
  <1>1. CASE ReplyTick
    BY <1>1, TickPaced DEF BeginsPaced
  <1>2. ASSUME NEW k \in Posters, ReplyStep(k) PROVE PaceInv' /\ BeginsPaced
    <2>1. PaceInv' /\ (reply'[k].stage = "post" => since[ChannelOf[k]] = Gap)
      BY <1>2, PacePaced, SleptPaced, OtherPaced DEF ReplyStep
    <2>2. PICK r : Becomes(k, r)
      BY <1>2 DEF ReplyStep, Take, Read, StatusReturns, ProviderReturns, Pace, Slept,
                  PostReturns, Posted, Commits, Fail, Clean, ClearReturns
    <2>3. \A j \in Posters : j # k => reply'[j] = reply[j]
      BY <2>2 DEF Becomes, DeadlineInv, ReplyTypes
    <2> QED
      BY <2>1, <2>3 DEF BeginsPaced
  <1>3. CASE UNCHANGED replyVars
    BY <1>3 DEF replyVars, PaceInv, Dozes, BeginsPaced
  <1> QED
    BY <1>1, <1>2, <1>3 DEF ReplyNext

\* Whichever workers and notices post to a channel at the same time, and however long
\* each of them sleeps with the lock or waits for it, two posts to it begin a gap apart:
\* the delay is still right at the end of the sleep it was computed for.
THEOREM SlackPostsPaced == ReplySpec => PostsPaced
  <1>1. settings \in Settings /\ Accepted(settings) /\ ReplyInit => DeadlineInv /\ PaceInv
    BY DeadlineStarts, PaceStarts
  <1>2. DeadlineInv /\ PaceInv /\ [ReplyNext]_replyVars => (DeadlineInv /\ PaceInv)'
    BY DeadlineHolds, PaceHolds
  <1>3. DeadlineInv /\ PaceInv /\ [ReplyNext]_replyVars => [BeginsPaced]_replyVars
    BY PaceHolds
  <1>4. ReplySpec => [][BeginsPaced]_replyVars
    BY <1>1, <1>2, <1>3, PTL DEF ReplySpec
  <1> QED
    BY <1>4 DEF PostsPaced, BeginsPaced

(***************************************************************************)
(* The Discord adapter.                                                    *)
(***************************************************************************)

CallTypes ==
    /\ settings \in Settings /\ Accepted(settings)
    /\ caller \in {"idle", "store", "ask", "blocked", "commit", "over"}
    /\ inStage \in Nat /\ requests \in Nat /\ parts \in Nat
    /\ sender \in [at : {"none", "ready", "sending", "ended"}, part : Nat, spent : Nat]
    /\ future \in {"none", "pending", "ok", "failed", "abandoned"}
    /\ handler \in [at : {"await", "report", "finally", "typing", "ended"}, spent : Nat]
    /\ posted \in BOOLEAN /\ typing \in BOOLEAN
    /\ begun \in Seq(Nat)
    /\ elapsed \in Nat /\ delayed \in Nat

\* While the thread waits for its post: the task is to be made, is about to start, is
\* sending, or has ended and said how.
Blocked ==
    \/ /\ loop \in {<<"post">>, <<"typing", "post">>}
       /\ sender.at = "none" /\ future = "pending" /\ inStage = 0
    \/ loop = <<"step">> /\ sender.at = "ready" /\ future = "pending" /\ inStage = 0
    \/ loop = <<>> /\ sender.at = "sending" /\ future = "pending"
    \/ loop = <<>> /\ sender.at = "ended" /\ future \in {"ok", "failed"}

\* When the thread is through: the loop learns of it in two rounds, after it has
\* cancelled a task that was given up.
Over ==
    \/ /\ loop \in {<<"succeed">>, <<"fail">>, <<"served">>, <<"failed">>}
       /\ handler.at = "await" /\ sender.at \in {"none", "ended"}
    \/ /\ loop = <<"cancel", "fail">> /\ handler.at = "await"
       /\ sender.at \in {"sending", "ended"} /\ future = "abandoned"
    \/ loop = <<>> /\ handler.at # "await" /\ sender.at \in {"none", "ended"}

\* Where the thread, the task and the loop are at the same time.
PhaseInv ==
    /\ caller \in {"idle", "store"} => loop = <<>> /\ ~typing
    /\ caller = "ask" => loop \in {<<>>, <<"typing">>}
    /\ caller \in {"idle", "store", "ask"} => sender.at = "none" /\ future = "none"
    /\ caller = "blocked" => Blocked
    /\ caller = "commit" => loop = <<>> /\ sender.at = "ended" /\ future = "ok"
    /\ caller = "over" => Over
    /\ caller # "over" => handler.at = "await"

\* The thread has waited for a post of one part as long as the task has sent it.
PartInv ==
    /\ sender.at = "sending" => sender.part >= 1 /\ sender.spent <= settings.postTimeout
    /\ caller = "blocked" => parts >= 1
    /\ caller = "blocked" /\ parts = 1 =>
        /\ inStage <= settings.postTimeout
        /\ sender.at = "sending" => sender.spent = inStage
    /\ parts = 1 => future # "abandoned"

\* No error is reported before the handler has learnt that the thread is through.
BegunInv ==
    /\ ErrorIsLast
    /\ handler.at = "await" => \A i \in 1 .. Len(begun) : begun[i] # ErrorText

\* The typing indicator is or will be shown, and its end may take one more call.
TypingAhead == typing \/ loop \in {<<"typing">>, <<"typing", "post">>}
Reserve == IF TypingAhead THEN settings.postTimeout ELSE 0

\* The longest the thread waits for its post.
Limit == IF parts = 1 THEN settings.postTimeout ELSE settings.postTimeout + 1

\* The time of the requests before the present one.
Asked(n) == (n - 1) * settings.timeout

TimeInv ==
    /\ TypingAhead => settings.status
    /\ caller \in {"idle", "store"} => elapsed = delayed
    /\ caller = "ask" =>
        /\ requests >= 1 /\ requests <= ProviderCalls(settings)
        /\ inStage <= settings.timeout
        /\ elapsed - delayed <= Asked(requests) + inStage
    /\ caller = "blocked" =>
        /\ inStage <= Limit
        /\ elapsed - delayed + (Limit - inStage) + Reserve <= Budget
    /\ caller = "commit" \/ (caller = "over" /\ handler.at = "await") =>
        elapsed - delayed + Reserve <= Budget
    /\ handler.at \in {"report", "typing"} => handler.spent <= settings.postTimeout
    /\ handler.at = "report" => elapsed - delayed + Reserve <= Budget + handler.spent
    /\ handler.at = "finally" => elapsed - delayed + Reserve <= Budget + settings.postTimeout
    /\ handler.at = "typing" => elapsed - delayed <= Budget + handler.spent
    /\ handler.at = "ended" => elapsed - delayed <= Budget + settings.postTimeout

\* The inductive invariant.
CallInv ==
    /\ CallTypes /\ PhaseInv /\ PartInv /\ BegunInv
    /\ ~Local(settings) => TimeInv

-------------------------------------------------------------------------------
\* The settings stay, and with them what is derived from them.
LEMMA SettingsStay ==
    ASSUME settings \in Settings, Accepted(settings), settings' = settings
    PROVE  /\ (settings \in Settings)' /\ Accepted(settings)'
           /\ Local(settings') <=> Local(settings)
           /\ ProviderCalls(settings') = ProviderCalls(settings)
  BY DEF Accepted, Local, WorstCase, ProviderCalls, PlatformCalls

\* The numbers of a call are numbers.
LEMMA CallNumbers ==
    ASSUME CallTypes
    PROVE  /\ settings.postTimeout \in Nat \ {0} /\ settings.timeout \in Nat \ {0}
           /\ settings.parts \in Nat \ {0} /\ TextParts \in Nat \ {0}
           /\ Budget \in Int /\ Reserve \in Nat /\ Limit \in Nat
           /\ ProviderCalls(settings) \in Nat /\ ProviderCalls(settings) >= 1
           /\ \A n \in Nat : Asked(n) \in Int /\ Asked(n + 1) = Asked(n) + settings.timeout
  <1>1. settings.postTimeout \in Nat \ {0} /\ settings.timeout \in Nat \ {0}
    BY BudgetAssumption DEF CallTypes
  <1>2. ASSUME NEW n \in Nat
        PROVE  Asked(n) \in Int /\ Asked(n + 1) = Asked(n) + settings.timeout
    <2> DEFINE t == settings.timeout
    <2>1. t \in Nat
      BY <1>1
    <2>2. Asked(n) = (n - 1) * t /\ Asked(n + 1) = ((n + 1) - 1) * t
      BY DEF Asked
    <2> HIDE DEF t
    <2>3. (n - 1) * t \in Int /\ ((n + 1) - 1) * t = (n - 1) * t + t
      BY <2>1
    <2> QED
      BY <2>2, <2>3 DEF t
  <1>3. /\ settings.parts \in Nat \ {0} /\ TextParts \in Nat \ {0} /\ Budget \in Int
        /\ ProviderCalls(settings) \in Nat /\ ProviderCalls(settings) >= 1
    BY SettingsTypes DEF CallTypes
  <1>4. Reserve \in Nat /\ Limit \in Nat
    BY <1>1 DEF Reserve, Limit
  <1> QED
    BY <1>1, <1>2, <1>3, <1>4

\* Posts that have begun are left alone, or a part is added before the end.
LEMMA BegunStays ==
    ASSUME BegunInv, begun' = begun, handler'.at = "await" => handler.at = "await"
    PROVE  BegunInv'
  BY DEF BegunInv, ErrorIsLast

\* A part of the answer is begun while the handler waits; the error text ends its wait.
LEMMA BegunGrows ==
    ASSUME CallTypes, BegunInv, handler.at = "await", NEW n \in Nat,
           begun' = Append(begun, n), handler'.at = "await" => n # ErrorText
    PROVE  BegunInv'
  <1>1. /\ begun \in Seq(Nat) /\ Len(begun') = Len(begun) + 1 /\ Len(begun) \in Nat
        /\ \A i \in 1 .. Len(begun) : begun'[i] = begun[i]
        /\ begun'[Len(begun) + 1] = n
    BY AppendProperties, LenProperties DEF CallTypes
  <1>2. \A i \in 1 .. Len(begun) : begun'[i] # ErrorText
    BY <1>1 DEF BegunInv
  <1>3. ErrorIsLast'
    BY <1>1, <1>2 DEF ErrorIsLast
  <1>4. ASSUME handler'.at = "await" PROVE \A i \in 1 .. Len(begun') : begun'[i] # ErrorText
    BY <1>1, <1>2, <1>4
  <1> QED
    BY <1>3, <1>4 DEF BegunInv

-------------------------------------------------------------------------------
\* Callbacks put behind others.
Callbacks == {"typing", "post", "step", "cancel", "fail", "succeed", "failed", "served"}

\* Appending to short queues of callbacks.
LEMMA Behind ==
    ASSUME NEW a \in Callbacks, NEW b \in Callbacks
    PROVE  /\ <<>> \o <<a>> = <<a>> /\ <<a>> \o <<>> = <<a>>
           /\ <<a>> \o <<b>> = <<a, b>>
           /\ <<>> \o <<a, b>> = <<a, b>>
  <1>1. <<a>> \in Seq(Callbacks) /\ <<b>> \in Seq(Callbacks) /\ <<a, b>> \in Seq(Callbacks)
    OBVIOUS
  <1>2. <<a>> \o <<b>> = <<a, b>>
    <2>1. Len(<<a>> \o <<b>>) = Len(<<a, b>>)
      BY <1>1, ConcatProperties
    <2>2. \A i \in 1 .. Len(<<a, b>>) : (<<a>> \o <<b>>)[i] = <<a, b>>[i]
      BY <1>1, ConcatProperties
    <2> QED
      BY <1>1, <2>1, <2>2, ConcatProperties, SeqEqual
  <1> QED
    BY <1>1, <1>2, ConcatEmptySeq

\* Queues of callbacks that differ.
LEMMA Unlike ==
    /\ <<"cancel", "fail">> # <<"typing", "post">> /\ <<"cancel", "fail">> # <<"typing">>
    /\ <<"cancel", "fail">> # <<>>
  <1>1. <<"cancel", "fail">>[1] # <<"typing", "post">>[1]
    OBVIOUS
  <1>2. Len(<<"cancel", "fail">>) # Len(<<"typing">>) /\ Len(<<"cancel", "fail">>) # 0
    OBVIOUS
  <1> QED
    BY <1>1, <1>2

-------------------------------------------------------------------------------
(* The service thread *)

\* The service thread begins with nothing posted and nothing scheduled.
LEMMA StartKeeps ==
    ASSUME CallInv, Start
    PROVE  CallInv'
  <1>1. /\ CallTypes /\ caller = "idle" /\ caller' = "store" /\ inStage' = 0
        /\ UNCHANGED <<settings, requests, parts, loop, sender, handler, typing, begun,
                       future, posted, elapsed, delayed>>
    BY DEF CallInv, Start, Proceed, loopVars, clocks
  <1>2. CallTypes'
    BY <1>1, SettingsStay DEF CallTypes
  <1>3. PhaseInv' /\ PartInv'
    BY <1>1 DEF CallInv, PhaseInv, PartInv
  <1>4. BegunInv'
    BY <1>1, BegunStays DEF CallInv
  <1>5. ~Local(settings) => TimeInv'
    BY <1>1 DEF CallInv, PhaseInv, TimeInv, TypingAhead
  <1> QED
    BY <1>1, <1>2, <1>3, <1>4, <1>5, SettingsStay DEF CallInv, CallTypes

\* A post of n parts is handed over, at a time that leaves it its own.
LEMMA DeliveryKeeps ==
    ASSUME CallInv, caller \in {"store", "ask"}, NEW n \in Nat \ {0}, DeliverParts(n),
           UNCHANGED <<settings, requests, sender, handler, typing, begun, posted, clocks>>,
           ~Local(settings) =>
               elapsed - delayed + (IF n = 1 THEN settings.postTimeout
                                    ELSE settings.postTimeout + 1) + Reserve <= Budget
    PROVE  CallInv'
  <1>0. CallTypes
    BY DEF CallInv
  <1>1. /\ CallTypes /\ caller' = "blocked" /\ inStage' = 0 /\ parts' = n
        /\ future' = "pending" /\ loop' = loop \o <<"post">>
        /\ UNCHANGED <<settings, requests, sender, handler, typing, begun, posted,
                       elapsed, delayed>>
    BY DEF CallInv, DeliverParts, Proceed, Schedule, clocks
  <1>2. CallTypes'
    BY <1>1, SettingsStay DEF CallTypes
  <1>3. \/ loop = <<>> /\ loop' = <<"post">>
        \/ loop = <<"typing">> /\ loop' = <<"typing", "post">>
    <2>1. loop = <<>> \/ loop = <<"typing">>
      BY DEF CallInv, PhaseInv
    <2> QED
      BY <1>1, <2>1, Behind DEF Callbacks
  <1>4. sender.at = "none" /\ handler.at = "await"
    BY DEF CallInv, PhaseInv
  <1>5. PhaseInv'
    BY <1>1, <1>3, <1>4 DEF PhaseInv, Blocked
  <1>6. PartInv'
    <2>1. 0 <= settings.postTimeout
      BY <1>0, CallNumbers
    <2> QED
      BY <1>1, <1>4, <2>1 DEF PartInv
  <1>7. BegunInv'
    BY <1>1, BegunStays DEF CallInv
  <1>8. ASSUME ~Local(settings) PROVE TimeInv'
    <2>1. TypingAhead' <=> TypingAhead
      BY <1>1, <1>3 DEF TypingAhead
    <2>2. Reserve' = Reserve
      BY <1>1, <2>1 DEF Reserve
    <2>3. Limit' = (IF n = 1 THEN settings.postTimeout ELSE settings.postTimeout + 1)
      BY <1>1 DEF Limit
    <2>4. TypingAhead => settings.status
      BY <1>8 DEF CallInv, TimeInv
    <2>5. inStage' <= Limit' /\ elapsed' - delayed' + (Limit' - inStage') + Reserve' <= Budget
      <3> DEFINE limit == IF n = 1 THEN settings.postTimeout ELSE settings.postTimeout + 1
      <3>1. limit \in Nat /\ Reserve \in Nat /\ Budget \in Int
        BY <1>0, CallNumbers
      <3>2. elapsed - delayed + limit + Reserve <= Budget
        BY <1>8
      <3>3. Limit' = limit
        BY <2>3
      <3> HIDE DEF limit
      <3> QED
        BY <1>1, <2>2, <3>1, <3>2, <3>3 DEF CallTypes
    <2> QED
      BY <1>1, <1>4, <2>1, <2>4, <2>5 DEF TimeInv, Budget
  <1> QED
    BY <1>1, <1>2, <1>5, <1>6, <1>7, <1>8, SettingsStay DEF CallInv, CallTypes

\* The budget has room for the post of a text of the service's own, on which the thread
\* spends a timeout and a second at most, of however many parts it is.
LEMMA TextTime ==
    ASSUME CallTypes, ~Local(settings)
    PROVE  settings.postTimeout + 1 <= Budget
  <1> DEFINE C == ProviderCalls(settings)
             P == PlatformCalls(settings)
             t == settings.timeout
             p == settings.postTimeout
  <1>1. /\ C \in Nat /\ C >= 1 /\ t \in Nat \ {0} /\ p \in Nat \ {0} /\ Budget \in Int
        /\ WorstCase(settings) <= Budget /\ P \in {1, 2}
    BY CallNumbers, SettingsTypes DEF CallTypes
  <1>2. WorstCase(settings) = C * t + P * p
    BY DEF WorstCase
  <1> HIDE DEF C, t, p, P
  <1>3. (C - 1) * t \in Nat /\ (C - 1) * t + t = C * t
    BY <1>1, OneFactor
  <1>4. P * p \in Nat /\ P * p >= p
    BY <1>1
  <1>5. p + 1 <= Budget
    BY <1>1, <1>2, <1>3, <1>4
  <1> QED
    BY <1>5 DEF p

\* What load_config accepts leaves time for every request and one post.
LEMMA AnswerTime ==
    ASSUME CallTypes, ~Local(settings), TypingAhead => settings.status,
           NEW n \in Nat, n <= ProviderCalls(settings)
    PROVE  n * settings.timeout + settings.postTimeout + Reserve <= Budget
  <1> DEFINE C == ProviderCalls(settings)
             t == settings.timeout
             p == settings.postTimeout
  <1>1. /\ C \in Nat /\ t \in Nat /\ p \in Nat /\ Budget \in Int
        /\ WorstCase(settings) <= Budget
        /\ PlatformCalls(settings) = IF settings.status THEN 2 ELSE 1
        /\ settings.status \in BOOLEAN
    BY CallNumbers, SettingsTypes DEF CallTypes
  <1>2. WorstCase(settings) = C * t + PlatformCalls(settings) * p
    BY DEF WorstCase
  <1>3. n * t \in Nat /\ C * t \in Nat /\ (C - n) * t \in Nat
    <2>1. C - n \in Nat
      BY <1>1
    <2> QED
      BY <1>1, <2>1, OneFactor
  <1>4. n * t + (C - n) * t = C * t
    BY <1>1
  <1> HIDE DEF C, t, p
  <1>5. PlatformCalls(settings) * p >= p + Reserve /\ Reserve \in Nat
        /\ PlatformCalls(settings) * p \in Int
    BY <1>1 DEF Reserve, p
  <1> QED
    BY <1>1, <1>2, <1>3, <1>4, <1>5 DEF t, p

\* A duplicate, a command or a question: what follows still fits.
LEMMA PrepareKeeps ==
    ASSUME CallInv, Prepare
    PROVE  CallInv'
  <1>0. CallTypes
    BY DEF CallInv
  <1>1. /\ caller = "store" /\ loop = <<>> /\ ~typing /\ sender.at = "none"
        /\ future = "none" /\ handler.at = "await"
        /\ UNCHANGED <<settings, sender, handler, typing, begun, posted, elapsed, delayed>>
    BY DEF Prepare, CallInv, PhaseInv, clocks
  <1>2. ~Local(settings) => elapsed = delayed /\ Reserve = 0
    BY <1>1 DEF CallInv, TimeInv, Reserve, TypingAhead
  <1>3. BegunInv'
    BY <1>1, BegunStays DEF CallInv
  <1>4. CASE /\ Proceed("ask") /\ requests' = 1 /\ UNCHANGED <<future, parts>>
             /\ (Schedule(<<"typing">>) /\ settings.status) \/ UNCHANGED loop
    <2>1. /\ caller' = "ask" /\ inStage' = 0 /\ requests' = 1 /\ UNCHANGED <<future, parts>>
          /\ (loop' = <<"typing">> /\ settings.status) \/ loop' = <<>>
      BY <1>1, <1>4, Behind DEF Proceed, Schedule, Callbacks
    <2>2. CallTypes'
      BY <1>0, <1>1, <2>1, SettingsStay DEF CallTypes
    <2>3. PhaseInv' /\ PartInv'
      BY <1>1, <2>1 DEF PhaseInv, PartInv, CallInv
    <2>4. ASSUME ~Local(settings) PROVE TimeInv'
      <3>1. Asked(1) = 0
        BY <1>0, CallNumbers DEF Asked
      <3>2. 1 <= ProviderCalls(settings) /\ 0 <= settings.timeout
        BY <1>0, CallNumbers
      <3>3. elapsed' - delayed' = 0
        BY <1>0, <1>1, <1>2, <2>4 DEF CallTypes
      <3>4. Asked(requests)' = Asked(1)
        BY <1>1, <2>1 DEF Asked
      <3>5. ProviderCalls(settings)' = ProviderCalls(settings)
        BY <1>0, <1>1, SettingsStay DEF CallTypes
      <3>6. TypingAhead' => settings'.status
        BY <1>1, <2>1 DEF TypingAhead
      <3> QED
        BY <1>1, <2>1, <3>1, <3>2, <3>3, <3>4, <3>5, <3>6 DEF TimeInv
    <2> QED
      BY <1>0, <1>1, <1>3, <2>2, <2>3, <2>4, SettingsStay DEF CallInv, CallTypes
  <1>5. ASSUME NEW n \in 1 .. TextParts, DeliverParts(n), UNCHANGED requests
        PROVE  CallInv'
    <2> DEFINE limit == IF n = 1 THEN settings.postTimeout ELSE settings.postTimeout + 1
    <2>1. n \in Nat \ {0} /\ limit \in Nat /\ Budget \in Int
      BY <1>0, CallNumbers
    <2>2. ~Local(settings) => limit <= Budget
      BY <1>0, CallNumbers, TextTime
    <2>3. ~Local(settings) => elapsed - delayed + limit + Reserve <= Budget
      <3> HIDE DEF limit
      <3> QED
        BY <1>0, <1>2, <2>1, <2>2 DEF CallTypes
    <2> QED
      BY <1>1, <1>5, <2>1, <2>3, DeliveryKeeps DEF clocks
  <1>6. CASE /\ Proceed("over") /\ UNCHANGED <<requests, future, parts>>
             /\ Schedule(<<"succeed">>) \/ Schedule(<<"fail">>)
    <2>1. /\ caller' = "over" /\ inStage' = 0 /\ UNCHANGED <<requests, future, parts>>
          /\ loop' = <<"succeed">> \/ loop' = <<"fail">>
      BY <1>1, <1>6, Behind DEF Proceed, Schedule, Callbacks
    <2>2. CallTypes'
      BY <1>0, <1>1, <2>1, SettingsStay DEF CallTypes
    <2>3. PhaseInv' /\ PartInv'
      BY <1>1, <2>1 DEF PhaseInv, Over, PartInv, CallInv
    <2>4. ASSUME ~Local(settings) PROVE TimeInv'
      <3>1. 0 <= Budget /\ Budget \in Int
        <4>1. settings.postTimeout \in Nat /\ Budget \in Int
          BY <1>0, CallNumbers
        <4> QED
          BY <1>0, <2>4, <4>1, TextTime
      <3>2. ~TypingAhead' /\ Reserve' = 0
        BY <1>1, <2>1 DEF TypingAhead, Reserve
      <3>3. elapsed' - delayed' = 0
        BY <1>0, <1>1, <1>2, <2>4 DEF CallTypes
      <3> QED
        BY <1>1, <2>1, <3>1, <3>2, <3>3 DEF TimeInv, Budget
    <2> QED
      BY <1>0, <1>1, <1>3, <2>2, <2>3, <2>4, SettingsStay DEF CallInv, CallTypes
  <1> QED
    BY <1>4, <1>5, <1>6 DEF Prepare

\* The provider pauses and is asked again, or the post of its answer is scheduled.
LEMMA GenerateKeeps ==
    ASSUME CallInv, GenerateAndPost
    PROVE  CallInv'
  <1>0. CallTypes
    BY DEF CallInv
  <1>1. /\ caller = "ask" /\ loop \in {<<>>, <<"typing">>} /\ sender.at = "none"
        /\ future = "none" /\ handler.at = "await"
        /\ UNCHANGED <<settings, sender, handler, typing, begun, posted, elapsed, delayed>>
    BY DEF GenerateAndPost, CallInv, PhaseInv, clocks
  <1>2. ~Local(settings) =>
          /\ requests >= 1 /\ requests <= ProviderCalls(settings)
          /\ inStage <= settings.timeout
          /\ elapsed - delayed <= Asked(requests) + inStage
          /\ TypingAhead => settings.status
    BY <1>1 DEF CallInv, TimeInv
  <1>3. CASE /\ requests < ProviderCalls(settings) /\ Proceed("ask")
             /\ requests' = requests + 1 /\ UNCHANGED <<loop, future, parts>>
    <2>1. /\ caller' = "ask" /\ inStage' = 0 /\ requests' = requests + 1
          /\ requests < ProviderCalls(settings) /\ UNCHANGED <<loop, future, parts>>
      BY <1>3 DEF Proceed
    <2>2. CallTypes'
      BY <1>0, <1>1, <2>1, SettingsStay DEF CallTypes
    <2>3. PhaseInv' /\ PartInv'
      BY <1>1, <2>1 DEF PhaseInv, PartInv, CallInv
    <2>4. BegunInv'
      BY <1>1, BegunStays DEF CallInv
    <2>5. ASSUME ~Local(settings) PROVE TimeInv'
      <3>1. /\ Asked(requests) \in Int
            /\ Asked(requests + 1) = Asked(requests) + settings.timeout
            /\ ProviderCalls(settings) \in Nat /\ settings.timeout \in Nat
        BY <1>0, CallNumbers DEF CallTypes
      <3>2. Asked(requests)' = Asked(requests + 1)
        BY <1>1, <2>1 DEF Asked
      <3>3. ProviderCalls(settings)' = ProviderCalls(settings)
        BY <1>0, <1>1, SettingsStay DEF CallTypes
      <3>4. /\ requests' >= 1 /\ requests' <= ProviderCalls(settings)
            /\ elapsed' - delayed' <= Asked(requests + 1) + inStage'
        <4>1. /\ elapsed' = elapsed /\ delayed' = delayed /\ inStage' = 0
              /\ requests' = requests + 1 /\ requests < ProviderCalls(settings)
          BY <1>1, <2>1
        <4>2. /\ requests \in Nat /\ inStage \in Nat /\ elapsed \in Nat /\ delayed \in Nat
              /\ requests >= 1 /\ inStage <= settings.timeout
              /\ elapsed - delayed <= Asked(requests) + inStage
          BY <1>0, <1>2, <2>5 DEF CallTypes
        <4> QED BY <3>1, <4>1, <4>2
      <3>5. TypingAhead' => settings'.status
        BY <1>1, <1>2, <2>1, <2>5 DEF TypingAhead
      <3> QED
        BY <1>1, <2>1, <3>1, <3>2, <3>3, <3>4, <3>5 DEF TimeInv
    <2> QED
      BY <1>0, <1>1, <2>2, <2>3, <2>4, <2>5, SettingsStay DEF CallInv, CallTypes
  <1>4. ASSUME NEW n \in {settings.parts, 1}, DeliverParts(n), UNCHANGED requests
        PROVE  CallInv'
    <2>1. n \in Nat \ {0}
      BY <1>0, CallNumbers
    <2>2. ASSUME ~Local(settings)
          PROVE  n = 1 /\ elapsed - delayed + settings.postTimeout + Reserve <= Budget
      <3>1. n = 1
        BY <1>0, <1>4, <2>2 DEF CallTypes, Accepted
      <3>2. /\ Asked(requests) + settings.timeout = Asked(requests + 1)
            /\ Asked(requests) \in Int /\ settings.timeout \in Nat
            /\ settings.postTimeout \in Nat /\ Reserve \in Nat /\ Budget \in Int
        BY <1>0, CallNumbers DEF CallTypes
      <3>3. requests \in Nat /\ requests * settings.timeout = Asked(requests + 1)
        BY <1>0 DEF CallTypes, Asked
      <3>4. requests * settings.timeout + settings.postTimeout + Reserve <= Budget
        BY <1>0, <1>2, <2>2, <3>3, AnswerTime
      <3> HIDE DEF Asked
      <3>5. Asked(requests + 1) + settings.postTimeout + Reserve <= Budget
        BY <3>3, <3>4
      <3>6. elapsed - delayed <= Asked(requests) + inStage /\ inStage <= settings.timeout
        BY <1>2, <2>2
      <3>7. inStage \in Nat /\ elapsed \in Nat /\ delayed \in Nat
        BY <1>0 DEF CallTypes
      <3> QED
        BY <3>1, <3>2, <3>5, <3>6, <3>7
    <2> QED
      BY <1>1, <1>4, <2>1, <2>2, DeliveryKeeps DEF clocks
  <1> QED
    BY <1>3, <1>4 DEF GenerateAndPost

\* The service thread has the result of a post.
LEMMA DeliveredKeeps ==
    ASSUME CallInv, Delivered
    PROVE  CallInv'
  <1>0. CallTypes
    BY DEF CallInv
  <1>1. /\ caller = "blocked" /\ future \in {"ok", "failed"} /\ loop = <<>>
        /\ sender.at = "ended" /\ handler.at = "await"
        /\ UNCHANGED <<settings, requests, parts, sender, handler, typing, begun, future,
                       elapsed, delayed>>
    BY DEF Delivered, CallInv, PhaseInv, Blocked, clocks
  <1>2. /\ inStage' = 0 /\ posted' \in BOOLEAN
        /\ \/ caller' = "commit" /\ future = "ok" /\ loop' = <<>>
           \/ caller' = "over" /\ future = "failed" /\ loop' = <<"fail">>
    BY <1>0, <1>1, Behind DEF Delivered, Proceed, Schedule, Callbacks, CallTypes
  <1>3. CallTypes'
    BY <1>0, <1>1, <1>2, SettingsStay DEF CallTypes
  <1>4. PhaseInv' /\ PartInv'
    BY <1>1, <1>2 DEF PhaseInv, Over, PartInv, CallInv
  <1>5. BegunInv'
    BY <1>1, BegunStays DEF CallInv
  <1>6. ASSUME ~Local(settings) PROVE TimeInv'
    <2>1. /\ inStage <= Limit /\ elapsed - delayed + (Limit - inStage) + Reserve <= Budget
          /\ TypingAhead => settings.status
      BY <1>1, <1>6 DEF CallInv, TimeInv
    <2>2. (TypingAhead' <=> TypingAhead) /\ Reserve' = Reserve
      BY <1>1, <1>2 DEF TypingAhead, Reserve
    <2>3. elapsed - delayed + Reserve <= Budget
      <3>1. /\ Limit \in Nat /\ Reserve \in Nat /\ Budget \in Int
            /\ inStage \in Nat /\ elapsed \in Nat /\ delayed \in Nat
        BY <1>0, CallNumbers DEF CallTypes
      <3> QED
        BY <2>1, <3>1
    <2> QED
      BY <1>1, <1>2, <2>1, <2>2, <2>3 DEF TimeInv, Budget
  <1> QED
    BY <1>0, <1>1, <1>3, <1>4, <1>5, <1>6, SettingsStay DEF CallInv, CallTypes

\* The thread gives up only a post of several parts, and only one that has been sending.
LEMMA GiveUpKeeps ==
    ASSUME CallInv, GiveUp
    PROVE  CallInv'
  <1>0. CallTypes
    BY DEF CallInv
  <1>1. /\ caller = "blocked" /\ inStage >= settings.postTimeout + 1
        /\ handler.at = "await" /\ Blocked
        /\ caller' = "over" /\ inStage' = 0 /\ future' = "abandoned"
        /\ loop' = loop \o (Cancellation \o <<"fail">>)
        /\ UNCHANGED <<settings, requests, parts, sender, handler, typing, begun, posted,
                       elapsed, delayed>>
    BY DEF GiveUp, GivesUp, Proceed, Schedule, CallInv, PhaseInv, clocks
  <1>2. settings.postTimeout \in Nat /\ inStage \in Nat
    BY <1>0, CallNumbers DEF CallTypes
  <1>3. loop = <<>> /\ sender.at \in {"sending", "ended"}
    BY <1>1, <1>2 DEF Blocked
  <1>4. loop' = <<"cancel", "fail">>
    BY <1>1, <1>3, Behind DEF Cancellation, Callbacks
  <1>5. parts # 1
    BY <1>1, <1>2 DEF CallInv, PartInv
  <1>6. CallTypes'
    BY <1>0, <1>1, SettingsStay DEF CallTypes
  <1>7. PhaseInv' /\ PartInv'
    BY <1>1, <1>3, <1>4, <1>5 DEF PhaseInv, Over, PartInv, CallInv
  <1>8. BegunInv'
    BY <1>1, BegunStays DEF CallInv
  <1>9. ASSUME ~Local(settings) PROVE TimeInv'
    <2>1. /\ inStage <= Limit /\ elapsed - delayed + (Limit - inStage) + Reserve <= Budget
          /\ TypingAhead => settings.status
      BY <1>1, <1>9 DEF CallInv, TimeInv
    <2>2. (TypingAhead' <=> TypingAhead) /\ Reserve' = Reserve
      BY <1>1, <1>3, <1>4, Unlike DEF TypingAhead, Reserve
    <2>3. elapsed - delayed + Reserve <= Budget
      <3>1. /\ Limit \in Nat /\ Reserve \in Nat /\ Budget \in Int
            /\ inStage \in Nat /\ elapsed \in Nat /\ delayed \in Nat
        BY <1>0, CallNumbers DEF CallTypes
      <3> QED
        BY <2>1, <3>1
    <2> QED
      BY <1>1, <2>1, <2>2, <2>3 DEF TimeInv, Budget
  <1> QED
    BY <1>0, <1>1, <1>6, <1>7, <1>8, <1>9, SettingsStay DEF CallInv, CallTypes

\* Storing the exchange schedules nothing.
LEMMA StoreKeeps ==
    ASSUME CallInv, Store
    PROVE  CallInv'
  <1>0. CallTypes
    BY DEF CallInv
  <1>1. /\ caller = "commit" /\ loop = <<>> /\ sender.at = "ended" /\ handler.at = "await"
        /\ caller' = "over" /\ inStage' = 0 /\ loop' = <<"succeed">>
        /\ UNCHANGED <<settings, requests, parts, sender, handler, typing, begun, future,
                       posted, elapsed, delayed>>
    BY Behind DEF Store, Proceed, Schedule, CallInv, PhaseInv, clocks, Callbacks
  <1>2. CallTypes'
    BY <1>0, <1>1, SettingsStay DEF CallTypes
  <1>3. PhaseInv' /\ PartInv'
    BY <1>1 DEF PhaseInv, Over, PartInv, CallInv
  <1>4. BegunInv'
    BY <1>1, BegunStays DEF CallInv
  <1>5. ASSUME ~Local(settings) PROVE TimeInv'
    <2>1. (TypingAhead' <=> TypingAhead) /\ Reserve' = Reserve
      BY <1>1 DEF TypingAhead, Reserve
    <2> QED
      BY <1>1, <1>5, <2>1 DEF CallInv, TimeInv, Budget
  <1> QED
    BY <1>0, <1>1, <1>2, <1>3, <1>4, <1>5, SettingsStay DEF CallInv, CallTypes

-------------------------------------------------------------------------------
(* The event loop *)

\* The front and the rest of short queues of callbacks.
LEMMA Fronts ==
    ASSUME NEW a, NEW b
    PROVE  /\ Head(<<a>>) = a /\ Tail(<<a>>) = <<>>
           /\ Head(<<a, b>>) = a /\ Tail(<<a, b>>) = <<b>>
  OBVIOUS

\* Who is where when a callback runs, by what it is.
LEMMA CallbackCases ==
    ASSUME CallInv, loop # <<>>
    PROVE  /\ Head(loop) = "typing" =>
                \/ caller = "ask" /\ Tail(loop) = <<>>
                \/ /\ caller = "blocked" /\ Tail(loop) = <<"post">>
                   /\ sender.at = "none" /\ future = "pending" /\ inStage = 0
           /\ Head(loop) \in {"post", "step"} =>
                /\ caller = "blocked" /\ Tail(loop) = <<>>
                /\ future = "pending" /\ inStage = 0 /\ handler.at = "await"
           /\ Head(loop) = "cancel" =>
                caller = "over" /\ Tail(loop) = <<"fail">> /\ handler.at = "await"
           /\ Head(loop) \in {"fail", "succeed", "failed", "served"} =>
                /\ caller = "over" /\ Tail(loop) = <<>>
                /\ handler.at = "await" /\ sender.at \in {"none", "ended"}
  <1>1. CASE caller = "ask"
    <2>1. loop = <<"typing">>
      BY <1>1 DEF CallInv, PhaseInv
    <2> QED
      BY <1>1, <2>1, Fronts
  <1>2. CASE caller = "blocked"
    <2>1. Blocked /\ handler.at = "await"
      BY <1>2 DEF CallInv, PhaseInv
    <2>2. CASE /\ loop = <<"post">>
               /\ sender.at = "none" /\ future = "pending" /\ inStage = 0
      BY <1>2, <2>1, <2>2, Fronts
    <2>3. CASE /\ loop = <<"typing", "post">>
               /\ sender.at = "none" /\ future = "pending" /\ inStage = 0
      BY <1>2, <2>1, <2>3, Fronts
    <2>4. CASE loop = <<"step">> /\ future = "pending" /\ inStage = 0
      BY <1>2, <2>1, <2>4, Fronts
    <2> QED
      BY <2>1, <2>2, <2>3, <2>4 DEF Blocked
  <1>3. CASE caller = "over"
    <2>1. Over
      BY <1>3 DEF CallInv, PhaseInv
    <2>2. ASSUME NEW c \in {"succeed", "fail", "served", "failed"}, loop = <<c>>,
                 handler.at = "await", sender.at \in {"none", "ended"}
          PROVE  /\ Head(loop) = c /\ caller = "over" /\ Tail(loop) = <<>>
                 /\ handler.at = "await" /\ sender.at \in {"none", "ended"}
      BY <1>3, <2>2, Fronts
    <2>3. CASE loop = <<"cancel", "fail">> /\ handler.at = "await"
      BY <1>3, <2>3, Fronts
    <2> QED
      BY <2>1, <2>2, <2>3 DEF Over
  <1>4. caller \in {"ask", "blocked", "over"}
    BY DEF CallInv, CallTypes, PhaseInv
  <1> QED
    BY <1>1, <1>2, <1>3, <1>4

\* What the time depends on, when neither the clocks nor the stages change.
LEMMA TimeStays ==
    ASSUME CallTypes, TimeInv, TypingAhead' = TypingAhead, handler' = handler,
           UNCHANGED <<settings, caller, inStage, requests, parts, elapsed, delayed>>
    PROVE  TimeInv'
  <1>1. /\ Reserve' = Reserve /\ Limit' = Limit /\ Asked(requests)' = Asked(requests)
        /\ ProviderCalls(settings)' = ProviderCalls(settings)
    BY SettingsStay DEF Reserve, Limit, Asked, CallTypes
  <1> QED
    BY <1>1 DEF TimeInv, Budget

\* The loop runs the callback at the front, and no other.
LEMMA RunCallbackKeeps ==
    ASSUME CallInv, RunCallback
    PROVE  CallInv'
  <1>0. CallTypes
    BY DEF CallInv
  <1>1. /\ loop # <<>>
        /\ UNCHANGED <<settings, caller, inStage, requests, parts, future, posted,
                       elapsed, delayed>>
    BY DEF RunCallback, threadVars, clocks
  <1>2. CASE /\ Head(loop) = "typing" /\ typing' = TRUE /\ loop' = Tail(loop)
             /\ UNCHANGED <<sender, handler, begun>>
    <2>1. CallTypes'
      BY <1>0, <1>1, <1>2, SettingsStay DEF CallTypes
    <2>2. \/ caller = "ask" /\ loop' = <<>>
          \/ /\ caller = "blocked" /\ loop' = <<"post">>
             /\ sender.at = "none" /\ future = "pending" /\ inStage = 0
      BY <1>1, <1>2, CallbackCases
    <2>3. PhaseInv' /\ PartInv'
      BY <1>1, <1>2, <2>2 DEF PhaseInv, Blocked, PartInv, CallInv
    <2>4. BegunInv'
      BY <1>2, BegunStays DEF CallInv
    <2>5. TypingAhead
      <3>1. CASE caller = "ask"
        BY <1>1, <3>1 DEF CallInv, PhaseInv, TypingAhead
      <3>2. CASE caller = "blocked"
        <4>1. Head(<<"post">>) = "post" /\ Head(<<"step">>) = "step"
          BY Fronts
        <4> QED
          BY <1>1, <1>2, <3>2, <4>1 DEF CallInv, PhaseInv, Blocked, TypingAhead
      <3> QED
        BY <2>2, <3>1, <3>2
    <2>6. TypingAhead' = TypingAhead
      BY <1>0, <1>2, <2>5 DEF TypingAhead
    <2>7. ~Local(settings) => TimeInv'
      BY <1>0, <1>1, <1>2, <2>6, TimeStays DEF CallInv
    <2> QED
      BY <1>0, <1>1, <2>1, <2>3, <2>4, <2>7, SettingsStay DEF CallInv, CallTypes
  <1>3. CASE /\ Head(loop) = "post"
             /\ loop' = Tail(loop) \o <<"step">> \o
                           IF future = "abandoned" THEN <<"cancel">> ELSE <<>>
             /\ sender' = [sender EXCEPT !.at = "ready"]
             /\ UNCHANGED <<handler, typing, begun>>
    <2>1. CallTypes'
      BY <1>0, <1>1, <1>3, SettingsStay DEF CallTypes
    <2>2. /\ caller = "blocked" /\ Tail(loop) = <<>>
          /\ future = "pending" /\ inStage = 0 /\ handler.at = "await"
      BY <1>1, <1>3, CallbackCases
    <2>3. loop' = <<"step">>
      <3>1. <<>> \o <<"step">> = <<"step">> /\ <<"step">> \o <<>> = <<"step">>
        BY Behind DEF Callbacks
      <3>2. loop' = (<<>> \o <<"step">>) \o <<>>
        BY <1>3, <2>2
      <3> QED
        BY <3>1, <3>2
    <2>4. sender'.at = "ready"
      BY <1>0, <1>3 DEF CallTypes
    <2>5. PhaseInv' /\ PartInv'
      BY <1>1, <1>3, <2>2, <2>3, <2>4 DEF PhaseInv, Blocked, PartInv, CallInv
    <2>6. BegunInv'
      BY <1>3, BegunStays DEF CallInv
    <2>7. TypingAhead' = TypingAhead
      <3>1. Head(<<"typing">>) # "post" /\ Head(<<"typing", "post">>) # "post"
        BY Fronts
      <3>2. loop \notin {<<"typing">>, <<"typing", "post">>}
        BY <1>3, <3>1
      <3>3. loop' \notin {<<"typing">>, <<"typing", "post">>}
        <4>1. Head(<<"step">>) = "step" /\ Head(<<"typing">>) = "typing"
              /\ Head(<<"typing", "post">>) = "typing"
          BY Fronts
        <4> QED
          BY <2>3, <4>1
      <3> QED
        BY <1>0, <1>3, <3>2, <3>3 DEF TypingAhead, CallTypes
    <2>8. ~Local(settings) => TimeInv'
      BY <1>0, <1>1, <1>3, <2>7, TimeStays DEF CallInv
    <2> QED
      BY <1>0, <1>1, <2>1, <2>5, <2>6, <2>8, SettingsStay DEF CallInv, CallTypes
  <1>4. CASE /\ Head(loop) = "step" /\ Sends(1) /\ loop' = Tail(loop)
             /\ UNCHANGED <<handler, typing>>
    <2>1. /\ caller = "blocked" /\ loop' = <<>>
          /\ future = "pending" /\ inStage = 0 /\ handler.at = "await"
      BY <1>1, <1>4, CallbackCases
    <2>2. /\ sender' = [at |-> "sending", part |-> 1, spent |-> 0]
          /\ begun' = Append(begun, 1)
      BY <1>4 DEF Sends
    <2>3. CallTypes'
      <3>1. begun' \in Seq(Nat)
        BY <1>0, <2>2, AppendProperties DEF CallTypes
      <3> QED
        BY <1>0, <1>1, <1>4, <2>2, <3>1, SettingsStay DEF CallTypes
    <2>4. 0 <= settings.postTimeout
      BY <1>0, CallNumbers
    <2>5. PhaseInv' /\ PartInv'
      BY <1>1, <1>4, <2>1, <2>2, <2>4 DEF PhaseInv, Blocked, PartInv, CallInv
    <2>6. BegunInv'
      BY <1>0, <2>1, <2>2, BegunGrows DEF CallInv, ErrorText
    <2>7. TypingAhead' = TypingAhead
      <3>1. Head(<<"typing">>) # "step" /\ Head(<<"typing", "post">>) # "step"
        BY Fronts
      <3>2. loop \notin {<<"typing">>, <<"typing", "post">>}
        BY <1>4, <3>1
      <3> QED
        BY <1>4, <2>1, <3>2 DEF TypingAhead
    <2>8. ~Local(settings) => TimeInv'
      BY <1>0, <1>1, <1>4, <2>7, TimeStays DEF CallInv
    <2> QED
      BY <1>0, <1>1, <2>3, <2>5, <2>6, <2>8, SettingsStay DEF CallInv, CallTypes
  <1>5. CASE /\ Head(loop) = "cancel"
             /\ sender' = [sender EXCEPT !.at = "ended"] /\ loop' = Tail(loop)
             /\ UNCHANGED <<handler, typing, begun>>
    <2>1. CallTypes'
      BY <1>0, <1>1, <1>5, SettingsStay DEF CallTypes
    <2>2. caller = "over" /\ loop' = <<"fail">> /\ handler.at = "await"
      BY <1>1, <1>5, CallbackCases
    <2>3. sender'.at = "ended"
      BY <1>0, <1>5 DEF CallTypes
    <2>4. PhaseInv' /\ PartInv'
      BY <1>1, <1>5, <2>2, <2>3 DEF PhaseInv, Over, PartInv, CallInv
    <2>5. BegunInv'
      BY <1>5, BegunStays DEF CallInv
    <2>6. TypingAhead' = TypingAhead
      <3>1. /\ Head(<<"typing">>) = "typing" /\ Head(<<"typing", "post">>) = "typing"
            /\ Head(<<"fail">>) = "fail"
        BY Fronts
      <3> QED
        BY <1>5, <2>2, <3>1 DEF TypingAhead
    <2>7. ~Local(settings) => TimeInv'
      BY <1>0, <1>1, <1>5, <2>6, TimeStays DEF CallInv
    <2> QED
      BY <1>0, <1>1, <2>1, <2>4, <2>5, <2>7, SettingsStay DEF CallInv, CallTypes
  <1>6. CASE /\ Head(loop) \in {"fail", "succeed"}
             /\ loop' = Tail(loop) \o <<IF Head(loop) = "fail" THEN "failed" ELSE "served">>
             /\ UNCHANGED <<sender, handler, typing, begun>>
    <2> DEFINE next == IF Head(loop) = "fail" THEN "failed" ELSE "served"
    <2>1. CallTypes'
      BY <1>0, <1>1, <1>6, SettingsStay DEF CallTypes
    <2>2. /\ caller = "over" /\ Tail(loop) = <<>>
          /\ handler.at = "await" /\ sender.at \in {"none", "ended"}
      BY <1>1, <1>6, CallbackCases
    <2>3. loop' = <<next>> /\ next \in {"failed", "served"}
      BY <1>6, <2>2, Behind DEF Callbacks
    <2> HIDE DEF next
    <2>4. PhaseInv' /\ PartInv'
      BY <1>1, <1>6, <2>2, <2>3 DEF PhaseInv, Over, PartInv, CallInv
    <2>5. BegunInv'
      BY <1>6, BegunStays DEF CallInv
    <2>6. TypingAhead' = TypingAhead
      <3>1. /\ Head(<<"typing">>) = "typing" /\ Head(<<"typing", "post">>) = "typing"
            /\ Head(<<next>>) = next
        BY Fronts
      <3> QED
        BY <1>6, <2>3, <3>1 DEF TypingAhead
    <2>7. ~Local(settings) => TimeInv'
      BY <1>0, <1>1, <1>6, <2>6, TimeStays DEF CallInv
    <2> QED
      BY <1>0, <1>1, <2>1, <2>4, <2>5, <2>7, SettingsStay DEF CallInv, CallTypes
  <1>7. CASE /\ Head(loop) \in {"failed", "served"}
             /\ Resume(Head(loop) = "failed") /\ loop' = Tail(loop)
             /\ UNCHANGED <<sender, typing>>
    <2>1. /\ caller = "over" /\ loop' = <<>>
          /\ handler.at = "await" /\ sender.at \in {"none", "ended"}
      BY <1>1, <1>7, CallbackCases
    <2>2. \/ /\ handler' = [at |-> "report", spent |-> 0]
             /\ begun' = Append(begun, ErrorText)
          \/ handler' = [at |-> "finally", spent |-> 0] /\ begun' = begun
      BY <1>7 DEF Resume, Handles
    <2>3. CallTypes'
      <3>1. begun' \in Seq(Nat)
        BY <1>0, <2>2, AppendProperties, SMTT(20) DEF CallTypes, ErrorText
      <3> QED
        BY <1>0, <1>1, <1>7, <2>2, <3>1, SettingsStay, SMTT(20) DEF CallTypes
    <2>4. PhaseInv' /\ PartInv'
      BY <1>1, <1>7, <2>1, <2>2 DEF PhaseInv, Over, PartInv, CallInv
    <2>5. BegunInv'
      <3>1. CASE begun' = Append(begun, ErrorText) /\ handler'.at = "report"
        BY <1>0, <2>1, <3>1, BegunGrows DEF CallInv, ErrorText
      <3>2. CASE begun' = begun /\ handler'.at = "finally"
        BY <3>2, BegunStays DEF CallInv
      <3> QED
        BY <2>2, <3>1, <3>2
    <2>6. ASSUME ~Local(settings) PROVE TimeInv'
      <3>1. elapsed - delayed + Reserve <= Budget /\ (TypingAhead => settings.status)
        BY <2>1, <2>6 DEF CallInv, TimeInv
      <3>2. TypingAhead' = TypingAhead
        <4>1. Head(<<"typing">>) = "typing" /\ Head(<<"typing", "post">>) = "typing"
          BY Fronts
        <4> QED
          BY <1>7, <2>1, <4>1, SMTT(20) DEF TypingAhead
      <3>3. Reserve' = Reserve /\ Reserve \in Nat
        BY <1>0, <1>1, <3>2, CallNumbers DEF Reserve
      <3>4. settings.postTimeout \in Nat /\ Budget \in Int
        BY <1>0, CallNumbers
      <3>5. /\ elapsed' - delayed' + Reserve' <= Budget + 0
            /\ elapsed' - delayed' + Reserve' <= Budget + settings.postTimeout
            /\ 0 <= settings.postTimeout
        BY <1>0, <1>1, <3>1, <3>3, <3>4 DEF CallTypes
      <3> QED
        BY <1>1, <2>1, <2>2, <3>1, <3>2, <3>5 DEF TimeInv, Budget
    <2> QED
      BY <1>0, <1>1, <2>3, <2>4, <2>5, <2>6, SettingsStay DEF CallInv, CallTypes
  <1> QED
    BY <1>2, <1>3, <1>4, <1>5, <1>6, <1>7 DEF RunCallback

\* The task that posts a part ends: by the answer, an error or its timeout.
LEMMA SendReturnsKeeps ==
    ASSUME CallInv, SendReturns
    PROVE  CallInv'
  <1>0. CallTypes
    BY DEF CallInv
  <1>1. /\ sender.at = "sending" /\ sender.part >= 1 /\ sender.part \in Nat
        /\ UNCHANGED <<settings, caller, inStage, requests, parts, loop, handler, typing,
                       posted, elapsed, delayed>>
    BY DEF SendReturns, threadVars, clocks, CallInv, CallTypes, PartInv
  <1>2. /\ handler.at = "await"
        /\ \/ caller = "blocked" /\ loop = <<>> /\ future = "pending"
           \/ caller = "over" /\ loop = <<"cancel", "fail">> /\ future = "abandoned"
    BY <1>0, <1>1 DEF CallInv, CallTypes, PhaseInv, Blocked, Over
  <1>3. ~Local(settings) => TimeInv'
    <2>1. TypingAhead' = TypingAhead
      BY <1>1 DEF TypingAhead
    <2> QED
      BY <1>0, <1>1, <2>1, TimeStays DEF CallInv
  <1>4. CASE /\ sender.part < parts
             /\ Sends(sender.part + 1) /\ UNCHANGED future
    <2>1. /\ sender' = [at |-> "sending", part |-> sender.part + 1, spent |-> 0]
          /\ begun' = Append(begun, sender.part + 1)
          /\ sender.part + 1 \in Nat /\ sender.part + 1 # ErrorText
          /\ sender.part + 1 >= 1 /\ parts # 1
      BY <1>0, <1>1, <1>4 DEF Sends, ErrorText, CallTypes
    <2>2. CallTypes'
      <3>1. begun' \in Seq(Nat)
        BY <1>0, <2>1, AppendProperties DEF CallTypes
      <3> QED
        BY <1>0, <1>1, <1>4, <2>1, <3>1, SettingsStay DEF CallTypes
    <2>3. 0 <= settings.postTimeout
      BY <1>0, CallNumbers
    <2>4. PhaseInv' /\ PartInv'
      BY <1>1, <1>2, <1>4, <2>1, <2>3 DEF PhaseInv, Blocked, Over, PartInv, CallInv
    <2>5. BegunInv'
      BY <1>0, <1>2, <2>1, BegunGrows DEF CallInv
    <2> QED
      BY <1>0, <1>1, <1>3, <2>2, <2>4, <2>5, SettingsStay DEF CallInv, CallTypes
  <1>5. ASSUME NEW end \in {"ok", "failed"}, sender' = [sender EXCEPT !.at = "ended"],
               future' = IF future = "pending" THEN end ELSE future, UNCHANGED begun
        PROVE  CallInv'
    <2>1. CallTypes'
      BY <1>0, <1>1, <1>5, SettingsStay DEF CallTypes
    <2>2. sender'.at = "ended"
      BY <1>0, <1>5 DEF CallTypes
    <2>3. PhaseInv' /\ PartInv'
      BY <1>1, <1>2, <1>5, <2>2 DEF PhaseInv, Blocked, Over, PartInv, CallInv
    <2>4. BegunInv'
      BY <1>1, <1>5, BegunStays DEF CallInv
    <2> QED
      BY <1>0, <1>1, <1>3, <2>1, <2>3, <2>4, SettingsStay DEF CallInv, CallTypes
  <1> QED
    BY <1>4, <1>5 DEF SendReturns

\* The handler's own steps come when the thread is through and the task has ended.
LEMMA HandlerKeeps ==
    ASSUME CallInv, Reported \/ Finally \/ TypingEnds
    PROVE  CallInv'
  <1>0. CallTypes
    BY DEF CallInv
  <1> DEFINE next == IF handler.at = "report" THEN "finally"
                     ELSE IF handler.at = "finally" /\ typing THEN "typing" ELSE "ended"
  <1>1. /\ handler.at \in {"report", "finally", "typing"}
        /\ handler' = [at |-> next, spent |-> 0]
        /\ UNCHANGED <<settings, caller, inStage, requests, parts, loop, sender, typing,
                       begun, future, posted, elapsed, delayed>>
    BY DEF Reported, Finally, TypingEnds, Handles, threadVars, clocks
  <1>2. /\ caller = "over" /\ loop = <<>> /\ sender.at \in {"none", "ended"}
    BY <1>0, <1>1 DEF CallInv, CallTypes, PhaseInv, Over
  <1>3. CallTypes'
    BY <1>0, <1>1, SettingsStay DEF CallTypes
  <1>4. PhaseInv' /\ PartInv'
    BY <1>1, <1>2 DEF PhaseInv, Over, PartInv, CallInv
  <1>5. BegunInv'
    BY <1>1, BegunStays DEF CallInv
  <1>6. ASSUME ~Local(settings) PROVE TimeInv'
    <2>1. TimeInv
      BY <1>6 DEF CallInv
    <2>2. (TypingAhead' <=> TypingAhead) /\ Reserve' = Reserve
      BY <1>1 DEF TypingAhead, Reserve
    <2>3. /\ settings.postTimeout \in Nat /\ Budget \in Int /\ Reserve \in Nat
          /\ elapsed \in Nat /\ delayed \in Nat /\ handler.spent \in Nat
      BY <1>0, CallNumbers DEF CallTypes
    <2>4. CASE handler.at = "report"
      <3>1. elapsed - delayed + Reserve <= Budget + settings.postTimeout
        BY <2>1, <2>3, <2>4 DEF TimeInv
      <3> QED
        BY <1>1, <1>2, <2>1, <2>2, <2>4, <3>1 DEF TimeInv, Budget
    <2>5. CASE handler.at = "finally"
      <3>1. elapsed - delayed + Reserve <= Budget + settings.postTimeout
        BY <2>1, <2>5 DEF TimeInv
      <3>2. typing => elapsed - delayed <= Budget + 0
        BY <2>3, <3>1 DEF Reserve, TypingAhead
      <3>3. elapsed - delayed <= Budget + settings.postTimeout
        BY <2>3, <3>1
      <3> QED
        BY <1>1, <1>2, <2>1, <2>2, <2>3, <2>5, <3>2, <3>3 DEF TimeInv, Budget
    <2>6. CASE handler.at = "typing"
      <3>1. elapsed - delayed <= Budget + settings.postTimeout
        BY <2>1, <2>3, <2>6 DEF TimeInv
      <3> QED
        BY <1>1, <1>2, <2>1, <2>2, <2>6, <3>1 DEF TimeInv, Budget
    <2> QED
      BY <1>1, <2>4, <2>5, <2>6
  <1> QED
    BY <1>0, <1>1, <1>3, <1>4, <1>5, <1>6, SettingsStay DEF CallInv, CallTypes

-------------------------------------------------------------------------------
\* Time passes for whoever is in a call, and only then.
LEMMA CallTickKeeps ==
    ASSUME CallInv, DiscordTick
    PROVE  CallInv'
  <1>0. CallTypes
    BY DEF CallInv
  <1>1. /\ caller # "idle" /\ handler.at \notin {"ended", "finally"} /\ loop = <<>>
        /\ caller # "over" => inStage < Patience
        /\ sender.at = "sending" => sender.spent < settings.postTimeout
        /\ handler.at \in {"report", "typing"} => handler.spent < settings.postTimeout
        /\ elapsed' = elapsed + 1
        /\ delayed' = IF caller \in {"store", "commit"} THEN delayed + 1 ELSE delayed
        /\ inStage' = IF caller = "over" THEN 0 ELSE inStage + 1
        /\ sender' = IF sender.at = "sending" THEN [sender EXCEPT !.spent = @ + 1] ELSE sender
        /\ handler' = IF handler.at = "await" THEN handler ELSE [handler EXCEPT !.spent = @ + 1]
        /\ UNCHANGED <<settings, caller, requests, parts, loop, typing, begun, future, posted>>
    BY DEF DiscordTick, UnderWay
  <1>2. /\ sender'.at = sender.at /\ sender'.part = sender.part
        /\ sender.at = "sending" => sender'.spent = sender.spent + 1
        /\ handler'.at = handler.at
        /\ handler.at # "await" => handler'.spent = handler.spent + 1
        /\ sender.spent \in Nat /\ handler.spent \in Nat
    BY <1>0, <1>1 DEF CallTypes
  <1>3. CallTypes'
    <2>1. /\ sender' \in [at : {"none", "ready", "sending", "ended"}, part : Nat, spent : Nat]
          /\ handler' \in [at : {"await", "report", "finally", "typing", "ended"}, spent : Nat]
          /\ elapsed' \in Nat /\ delayed' \in Nat /\ inStage' \in Nat
      <3>1. sender.spent + 1 \in Nat /\ handler.spent + 1 \in Nat
        BY <1>2
      <3>2. [sender EXCEPT !.spent = @ + 1] \in
                [at : {"none", "ready", "sending", "ended"}, part : Nat, spent : Nat]
        BY <1>0, <3>1 DEF CallTypes
      <3>3. [handler EXCEPT !.spent = @ + 1] \in
                [at : {"await", "report", "finally", "typing", "ended"}, spent : Nat]
        BY <1>0, <3>1 DEF CallTypes
      <3>4. elapsed' \in Nat /\ delayed' \in Nat /\ inStage' \in Nat
        <4>1. elapsed \in Nat /\ delayed \in Nat /\ inStage \in Nat
          BY <1>0 DEF CallTypes
        <4>2. /\ elapsed' = elapsed + 1 /\ delayed' \in {delayed, delayed + 1}
              /\ inStage' \in {0, inStage + 1}
          BY <1>1
        <4> QED BY <4>1, <4>2
      <3>5. sender' \in [at : {"none", "ready", "sending", "ended"}, part : Nat, spent : Nat]
        BY <1>0, <1>1, <3>2 DEF CallTypes
      <3>6. handler' \in [at : {"await", "report", "finally", "typing", "ended"}, spent : Nat]
        BY <1>0, <1>1, <3>3 DEF CallTypes
      <3> QED
        BY <3>4, <3>5, <3>6
    <2> QED
      BY <1>0, <1>1, <2>1, SettingsStay DEF CallTypes
  <1>4. /\ settings.postTimeout \in Nat /\ settings.timeout \in Nat /\ Budget \in Int
        /\ inStage \in Nat /\ elapsed \in Nat /\ delayed \in Nat /\ parts \in Nat
    BY <1>0, CallNumbers DEF CallTypes
  <1>5. caller = "blocked" => /\ sender.at = "sending" /\ future = "pending"
                              /\ inStage < settings.postTimeout + 1
    <2>1. ASSUME caller = "blocked", future \in {"ok", "failed"} PROVE FALSE
      BY <1>1, <1>4, <2>1 DEF Patience
    <2>2. ASSUME caller = "blocked" PROVE Blocked
      BY <2>2 DEF CallInv, PhaseInv
    <2>3. loop # <<"post">> /\ loop # <<"typing", "post">> /\ loop # <<"step">>
      BY <1>1
    <2>4. ASSUME caller = "blocked" PROVE sender.at = "sending" /\ future = "pending"
      BY <2>1, <2>2, <2>3, <2>4 DEF Blocked
    <2> QED
      BY <1>1, <2>4 DEF Patience
  <1>6. caller = "over" => handler.at \in {"report", "typing"} /\ sender.at # "sending"
    <2>1. ASSUME caller = "over" PROVE Over
      BY <2>1 DEF CallInv, PhaseInv
    <2> QED
      BY <1>0, <1>1, <2>1, Unlike DEF Over, CallTypes
  <1>7. PhaseInv'
    BY <1>0, <1>1, <1>2, <1>5, <1>6 DEF CallInv, CallTypes, PhaseInv, Blocked, Over
  <1>8. PartInv'
    <2>1. PartInv
      BY DEF CallInv
    <2>2. ASSUME sender.at = "sending"
          PROVE  sender'.part >= 1 /\ sender'.spent <= settings.postTimeout
      BY <1>1, <1>2, <1>4, <2>1, <2>2 DEF PartInv
    <2>3. ASSUME caller = "blocked", parts = 1
          PROVE  inStage' <= settings.postTimeout /\ sender'.spent = inStage'
      BY <1>1, <1>2, <1>4, <1>5, <2>1, <2>3 DEF PartInv
    <2> QED
      BY <1>1, <1>2, <2>1, <2>2, <2>3 DEF PartInv
  <1>9. BegunInv'
    BY <1>1, <1>2, BegunStays DEF CallInv
  <1>10. ASSUME ~Local(settings) PROVE TimeInv'
    <2>1. TimeInv
      BY <1>10 DEF CallInv
    <2>2. /\ (TypingAhead' <=> TypingAhead) /\ Reserve' = Reserve /\ Reserve \in Nat
          /\ Limit' = Limit /\ Limit \in Nat
          /\ Asked(requests)' = Asked(requests) /\ Asked(requests) \in Int
          /\ ProviderCalls(settings)' = ProviderCalls(settings)
      BY <1>0, <1>1, CallNumbers, SettingsStay
         DEF TypingAhead, Reserve, Limit, Asked, CallTypes
    <2>3. CASE caller = "store"
      BY <1>1, <1>2, <2>1, <2>2, <2>3 DEF TimeInv, CallInv, PhaseInv
    <2>4. CASE caller = "ask"
      <3>1. inStage < settings.timeout
        BY <1>1, <2>4 DEF Patience
      <3>2. inStage' <= settings.timeout /\ elapsed' - delayed' <= Asked(requests) + inStage'
        BY <1>1, <1>4, <2>1, <2>2, <2>4, <3>1, SMTT(20) DEF TimeInv
      <3>3. handler.at = "await"
        BY <2>4 DEF CallInv, PhaseInv
      <3> QED
        BY <1>1, <1>2, <2>1, <2>2, <2>4, <3>2, <3>3 DEF TimeInv
    <2>5. CASE caller = "blocked"
      <3>1. inStage' <= Limit
        <4>1. CASE parts = 1
          BY <1>1, <1>8, <2>5, <4>1 DEF PartInv, Limit
        <4>2. CASE parts # 1
          BY <1>1, <1>4, <1>5, <2>5, <4>2 DEF Limit
        <4> QED
          BY <4>1, <4>2
      <3>2. elapsed' - delayed' + (Limit - inStage') + Reserve <= Budget
        BY <1>1, <1>4, <2>1, <2>2, <2>5 DEF TimeInv
      <3>3. handler.at = "await"
        BY <2>5 DEF CallInv, PhaseInv
      <3> QED
        BY <1>1, <1>2, <2>1, <2>2, <2>5, <3>1, <3>2, <3>3 DEF TimeInv, Budget
    <2>6. CASE caller = "commit"
      <3>1. elapsed' - delayed' = elapsed - delayed /\ handler.at = "await"
        BY <1>1, <1>4, <2>6 DEF CallInv, PhaseInv
      <3> QED
        BY <1>1, <1>2, <2>1, <2>2, <2>6, <3>1 DEF TimeInv, Budget
    <2>7. CASE caller = "over"
      <3>1. /\ elapsed' - delayed' = elapsed - delayed + 1
            /\ handler'.spent = handler.spent + 1 /\ handler'.spent <= settings.postTimeout
            /\ handler.at \in {"report", "typing"}
        BY <1>1, <1>2, <1>4, <1>6, <2>7, SMTT(20)
      <3>2. /\ handler.at = "report" =>
                    elapsed' - delayed' + Reserve <= Budget + handler'.spent
            /\ handler.at = "typing" => elapsed' - delayed' <= Budget + handler'.spent
        BY <1>2, <1>4, <2>1, <2>2, <3>1, SMTT(20) DEF TimeInv
      <3> QED
        BY <1>1, <1>2, <2>1, <2>2, <2>7, <3>1, <3>2 DEF TimeInv, Budget
    <2> QED
      BY <1>0, <1>1, <2>3, <2>4, <2>5, <2>6, <2>7 DEF CallTypes
  <1> QED
    BY <1>0, <1>1, <1>3, <1>7, <1>8, <1>9, <1>10, SettingsStay DEF CallInv, CallTypes

-------------------------------------------------------------------------------
\* A reply that has not begun has everything before it.
LEMMA CallStarts ==
    ASSUME settings \in Settings, Accepted(settings), DiscordInit
    PROVE  CallInv
  <1>1. CallTypes
    <2>1. /\ caller = "idle" /\ inStage = 0 /\ requests = 0 /\ parts = 0 /\ future = "none"
          /\ posted = FALSE /\ typing = FALSE /\ elapsed = 0 /\ delayed = 0
      BY DEF DiscordInit
    <2>2. sender \in [at : {"none", "ready", "sending", "ended"}, part : Nat, spent : Nat]
      BY DEF DiscordInit
    <2>3. handler \in [at : {"await", "report", "finally", "typing", "ended"}, spent : Nat]
      BY DEF DiscordInit
    <2>4. begun \in Seq(Nat)
      BY EmptySeq DEF DiscordInit
    <2> QED
      BY <2>1, <2>2, <2>3, <2>4 DEF CallTypes
  <1>2. BegunInv
    BY DEF DiscordInit, BegunInv, ErrorIsLast
  <1>3. PhaseInv /\ PartInv
    BY DEF DiscordInit, PhaseInv, PartInv
  <1>4. TimeInv
    <2>1. loop \notin {<<"typing">>, <<"typing", "post">>}
      BY DEF DiscordInit
    <2> QED
      BY <2>1 DEF DiscordInit, TimeInv, TypingAhead
  <1> QED
    BY <1>1, <1>2, <1>3, <1>4 DEF CallInv

\* Every step of the service thread and of the loop keeps the invariant.
LEMMA CallHolds ==
    ASSUME CallInv, [DiscordNext]_discordVars
    PROVE  CallInv'
  <1>1. CASE DiscordNext
    BY <1>1, StartKeeps, PrepareKeeps, GenerateKeeps, DeliveredKeeps, GiveUpKeeps, StoreKeeps,
       RunCallbackKeeps, SendReturnsKeeps, HandlerKeeps, CallTickKeeps DEF DiscordNext
  <1>2. CASE UNCHANGED discordVars
    <2>1. UNCHANGED <<settings, caller, inStage, requests, parts, loop, sender, handler,
                      typing, begun, future, posted, elapsed, delayed>>
      BY <1>2 DEF discordVars, threadVars, loopVars, clocks
    <2>2. CallTypes' /\ PhaseInv' /\ PartInv'
      BY <2>1, SettingsStay DEF CallInv, CallTypes, PhaseInv, Blocked, Over, PartInv
    <2>3. BegunInv'
      BY <2>1, BegunStays DEF CallInv
    <2>4. ~Local(settings) => TimeInv'
      <3>1. TypingAhead' = TypingAhead
        BY <2>1 DEF TypingAhead
      <3> QED
        BY <2>1, <3>1, TimeStays DEF CallInv
    <2> QED
      BY <2>1, <2>2, <2>3, <2>4, SettingsStay DEF CallInv, CallTypes
  <1> QED
    BY <1>1, <1>2

\* The clauses of the invariant bound the time of every stage.
LEMMA CallInTime ==
    ASSUME CallInv
    PROVE  DiscordEndsInTime
  <1> SUFFICES ASSUME ~Local(settings)
               PROVE  elapsed <= Budget + settings.postTimeout + delayed
    BY DEF DiscordEndsInTime
  <1>1. /\ CallTypes /\ TimeInv /\ PhaseInv
        /\ settings.postTimeout \in Nat /\ Budget \in Int /\ Reserve \in Nat /\ Limit \in Nat
        /\ settings.timeout \in Nat
        /\ inStage \in Nat /\ elapsed \in Nat /\ delayed \in Nat /\ handler.spent \in Nat
    BY CallNumbers DEF CallInv, CallTypes
  <1>2. CASE caller \in {"idle", "store"}
    <2>1. settings.postTimeout <= Budget
      BY <1>1, TextTime
    <2> QED
      BY <1>1, <1>2, <2>1 DEF TimeInv
  <1>3. CASE caller = "ask"
    <2>1. /\ requests \in Nat /\ Asked(requests) \in Int
          /\ Asked(requests + 1) = Asked(requests) + settings.timeout
      BY <1>1, CallNumbers DEF CallTypes
    <2>2. Asked(requests + 1) = requests * settings.timeout
      BY <2>1 DEF Asked
    <2>3. requests * settings.timeout + settings.postTimeout + Reserve <= Budget
      BY <1>1, <1>3, <2>1, AnswerTime DEF TimeInv
    <2>4. Asked(requests) + settings.timeout + settings.postTimeout + Reserve <= Budget
      BY <2>1, <2>2, <2>3
    <2> QED
      BY <1>1, <1>3, <2>1, <2>4 DEF TimeInv
  <1>4. CASE caller \in {"blocked", "commit"} \/ (caller = "over" /\ handler.at = "await")
    BY <1>1, <1>4 DEF TimeInv
  <1>5. CASE caller = "over" /\ handler.at # "await"
    BY <1>1, <1>5, SMTT(20) DEF TimeInv, CallTypes
  <1> QED
    BY <1>1, <1>2, <1>3, <1>4, <1>5 DEF CallTypes

\* The thread that gives up on its post, the task that sends and the handler that reports
\* do not wait for each other; still, whichever of them comes first, the channel is told
\* no part of the answer after the error: the cancellation runs before the report.
THEOREM DiscordErrorIsLast == DiscordSpec => []ErrorIsLast
  <1>1. settings \in Settings /\ Accepted(settings) /\ DiscordInit => CallInv
    BY CallStarts
  <1>2. CallInv /\ [DiscordNext]_discordVars => CallInv'
    BY CallHolds
  <1>3. CallInv => ErrorIsLast
    BY DEF CallInv, BegunInv
  <1> QED
    BY <1>1, <1>2, <1>3, PTL DEF DiscordSpec

\* However long the post of one part takes within its timeout, the second that the thread
\* waits longer is enough, so that what it is told is how the post has ended.
THEOREM DiscordPostNotCutOff == DiscordSpec => []OnePartNotCutOff
  <1>1. settings \in Settings /\ Accepted(settings) /\ DiscordInit => CallInv
    BY CallStarts
  <1>2. CallInv /\ [DiscordNext]_discordVars => CallInv'
    BY CallHolds
  <1>3. CallInv => OnePartNotCutOff
    BY DEF CallInv, PartInv, OnePartNotCutOff
  <1> QED
    BY <1>1, <1>2, <1>3, PTL DEF DiscordSpec

\* For whatever a deployment sets within what load_config accepts, and however the calls
\* end: a reply of the Discord adapter takes the budget, one more timeout of a post, and
\* its waits for the store.
THEOREM DiscordDeadline == DiscordSpec => []DiscordEndsInTime
  <1>1. settings \in Settings /\ Accepted(settings) /\ DiscordInit => CallInv
    BY CallStarts
  <1>2. CallInv /\ [DiscordNext]_discordVars => CallInv'
    BY CallHolds
  <1>3. CallInv => DiscordEndsInTime
    BY CallInTime
  <1> QED
    BY <1>1, <1>2, <1>3, PTL DEF DiscordSpec
===============================================================================
