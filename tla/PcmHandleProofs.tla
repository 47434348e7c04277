--------------------------- MODULE PcmHandleProofs ---------------------------
(***************************************************************************)
(* Proofs about PcmHandle for any handles, ports, retries and bytes: who   *)
(* has a driver when, and what a write reports.                            *)
(***************************************************************************)
EXTENDS PcmHandle, SequenceTheorems, TLAPS

(* Outside a write nothing remains to be written; inside, something does.   *)
Remaining ==
  \A h \in Handle : /\ wpc[h] = "idle" => ptr[h] = end[h]
                    /\ wpc[h] = "call" => ptr[h] < end[h]

(* The drivers follow the handles; no write step changes them.              *)
DriverInv == LiveHasDriver /\ NoDriverLeft /\ ReaderSafe
HandleInv == TypeOK /\ Remaining /\ DriverInv

USE HandleAssumption DEF Port

-----------------------------------------------------------------------------
LEMMA InitHandleInv == Init => HandleInv
<1> SUFFICES ASSUME Init PROVE HandleInv
  OBVIOUS
<1>1. <<>> \in Seq(Handle \X (0..(MaxBytes - 1)))
  BY EmptySeq
<1>2. TypeOK
  BY <1>1 DEF Init, TypeOK
<1> QED
  BY <1>2 DEF Init, HandleInv, Remaining, DriverInv, LiveHasDriver, NoDriverLeft,
              ReaderSafe, Initialized

(* The calls that only move the handle's own flags and its application task. *)
LEMMA CallStep ==
  ASSUME HandleInv, NEW h \in Handle,
         \/ esp_audio_pcm_open(h) \/ esp_audio_pcm_close(h) \/ esp_audio_pcm_ctrl_start(h)
         \/ esp_audio_pcm_ctrl_stop(h, "stop") \/ esp_audio_pcm_ctrl_stop(h, "delete")
         \/ ctrl_stopped(h) \/ delete_close(h) \/ CtrlTask(h)
  PROVE  HandleInv'
<1> USE DEF HandleInv, Set, Between, TaskGone, write
<1>1. TypeOK'
  BY DEF TypeOK, esp_audio_pcm_open, esp_audio_pcm_close, esp_audio_pcm_ctrl_start,
         esp_audio_pcm_ctrl_stop, ctrl_stopped, delete_close, CtrlTask, ctrl_loop, ctrl_read,
         struct
<1>2. /\ UNCHANGED <<driver, console, robbed, port, write>>
      /\ mpc' \in [Handle -> {"none", "live", "stop", "delete", "deinit", "freed"}]
      /\ \A g \in Handle : Initialized(g)' <=> Initialized(g)
  BY <1>1, ZenonT(60) DEF TypeOK, Initialized, struct, esp_audio_pcm_open, esp_audio_pcm_close,
              esp_audio_pcm_ctrl_start, esp_audio_pcm_ctrl_stop, ctrl_stopped, delete_close,
              CtrlTask, ctrl_loop, ctrl_read
<1>3. ReaderSafe'
  BY DEF DriverInv, ReaderSafe, TypeOK, struct, esp_audio_pcm_open, esp_audio_pcm_close,
         esp_audio_pcm_ctrl_start, esp_audio_pcm_ctrl_stop, ctrl_stopped, delete_close,
         CtrlTask, ctrl_loop, ctrl_read
<1>4. LiveHasDriver'
  BY <1>2 DEF DriverInv, LiveHasDriver
<1>5. NoDriverLeft'
  BY <1>2 DEF DriverInv, NoDriverLeft
<1>6. Remaining'
  BY <1>2 DEF Remaining
<1> QED
  BY <1>1, <1>3, <1>4, <1>5, <1>6 DEF DriverInv

(* Creating and deleting a handle, and the console.                         *)
LEMMA DriverStep ==
  ASSUME HandleInv,
         \/ ConsoleInstall
         \/ \E h \in Handle : esp_audio_pcm_new(h) \/ deinit(h)
  PROVE  HandleInv'
<1> USE DEF HandleInv, Set, struct, write
<1>1. CASE ConsoleInstall
  BY <1>1 DEF ConsoleInstall, TypeOK, Remaining, DriverInv, LiveHasDriver, NoDriverLeft,
              ReaderSafe, Initialized
<1>2. ASSUME NEW h \in Handle, esp_audio_pcm_new(h) PROVE HandleInv'
  <2>1. TypeOK'
    BY <1>2 DEF esp_audio_pcm_new, TypeOK
  <2>2. /\ driver \subseteq driver' /\ driver' \subseteq driver \cup {port[h]}
        /\ port[h] \in driver'
    BY <1>2 DEF esp_audio_pcm_new, Install, InitOk
  <2>3. /\ UNCHANGED <<console, robbed, struct, cpc, write>>
        /\ mpc[h] = "none" /\ Initialized(h)'
        /\ \A g \in Handle \ {h} : mpc'[g] = mpc[g] /\ (Initialized(g)' <=> Initialized(g))
    BY <1>2 DEF esp_audio_pcm_new, TypeOK, Initialized
  <2>4. LiveHasDriver'
    BY <2>2, <2>3 DEF DriverInv, LiveHasDriver
  <2>5. NoDriverLeft'
    BY <2>2, <2>3 DEF DriverInv, NoDriverLeft, Initialized
  <2>6. ReaderSafe' /\ Remaining'
    BY <2>3 DEF DriverInv, ReaderSafe, Remaining
  <2> QED
    BY <2>1, <2>4, <2>5, <2>6 DEF DriverInv
<1>3. ASSUME NEW h \in Handle, deinit(h) PROVE HandleInv'
  <2>1. TypeOK'
    BY <1>3 DEF deinit, Uninstalled, TypeOK
  <2>2. /\ UNCHANGED <<port, cpc, write>>
        /\ driver' = driver \ {port[h]} /\ console' = console \ {port[h]}
        /\ robbed' = robbed \cup {g \in Handle \ {h} : Initialized(g) /\ port[g] = port[h]}
        /\ mpc[h] = "deinit" /\ ~Initialized(h)'
        /\ \A g \in Handle \ {h} : mpc'[g] = mpc[g] /\ (Initialized(g)' <=> Initialized(g))
    BY <1>3 DEF deinit, Uninstalled, TypeOK, Initialized
  <2>3. LiveHasDriver'
    <3> SUFFICES ASSUME NEW g \in Handle, Initialized(g)', g \notin robbed'
                 PROVE  port'[g] \in driver'
      BY DEF LiveHasDriver
    <3>1. g # h /\ Initialized(g) /\ g \notin robbed /\ port[g] # port[h]
      BY <2>2
    <3> QED
      BY <2>2, <3>1 DEF DriverInv, LiveHasDriver
  <2>4. NoDriverLeft'
    <3> SUFFICES ASSUME NEW p \in driver', p \notin console'
                 PROVE  \E g \in Handle : Initialized(g)' /\ port'[g] = p
      BY DEF NoDriverLeft
    <3>1. p \in driver /\ p \notin console /\ p # port[h]
      BY <2>2
    <3>2. PICK g \in Handle : Initialized(g) /\ port[g] = p
      BY <3>1 DEF DriverInv, NoDriverLeft
    <3> QED
      BY <2>2, <3>1, <3>2
  <2>5. ReaderSafe' /\ Remaining'
    BY <2>2 DEF DriverInv, ReaderSafe, Remaining
  <2> QED
    BY <2>1, <2>3, <2>4, <2>5 DEF DriverInv
<1> QED
  BY <1>1, <1>2, <1>3

(* What one call of the driver does to the write's state and the port.      *)
Taken(h, n) == [i \in 1..n |-> <<h, ptr[h] + i - 1>>]

LEMMA TakenFacts ==
  ASSUME HandleInv, NEW h \in Handle, wpc[h] = "call", NEW n \in Accepts(h)
  PROVE  /\ n \in Nat /\ ptr[h] \in Nat /\ end[h] \in Nat
         /\ ptr[h] < end[h] /\ ptr[h] + n <= end[h] /\ end[h] <= MaxBytes
         /\ Taken(h, n) \in Seq(Handle \X (0..(MaxBytes - 1)))
         /\ Len(Taken(h, n)) = n
<1>1. /\ n \in Nat /\ ptr[h] \in Nat /\ end[h] \in Nat
      /\ ptr[h] < end[h] /\ ptr[h] + n <= end[h] /\ end[h] <= MaxBytes
  BY DEF HandleInv, TypeOK, Remaining, Accepts
<1>2. Taken(h, n) \in [1..n -> Handle \X (0..(MaxBytes - 1))]
  <2>1. \A i \in 1..n : <<h, ptr[h] + i - 1>> \in Handle \X (0..(MaxBytes - 1))
    BY <1>1
  <2> QED
    BY <2>1 DEF Taken
<1> QED
  BY <1>1, <1>2

LEMMA WriteStep ==
  ASSUME HandleInv, NEW h \in Handle, esp_audio_pcm_write(h) \/ write_call(h)
  PROVE  HandleInv'
<1> USE DEF HandleInv, Set
<1>1. CASE esp_audio_pcm_write(h)
  <2>1. PICK len \in 1..(MaxBytes - end[h]) : end' = [end EXCEPT ![h] = end[h] + len]
    BY <1>1 DEF esp_audio_pcm_write
  <2>2. TypeOK'
    BY <1>1, <2>1 DEF esp_audio_pcm_write, TypeOK, struct
  <2>3. Remaining'
    BY <1>1, <2>1 DEF esp_audio_pcm_write, TypeOK, Remaining
  <2>4. DriverInv'
    BY <1>1 DEF esp_audio_pcm_write, DriverInv, LiveHasDriver, NoDriverLeft, ReaderSafe,
                Initialized, struct
  <2> QED
    BY <2>2, <2>3, <2>4
<1>2. CASE write_call(h)
  <2>1. PICK n \in Accepts(h) :
          /\ out' = [out EXCEPT ![port[h]] = @ \o Taken(h, n)]
          /\ IF ptr[h] + n = end[h] \/ LastRetry(h)
             THEN /\ wpc' = Set(wpc, h, "idle")
                  /\ ptr' = Set(ptr, h, end[h])
                  /\ refused' = Set(refused, h, refused[h] \cup ((ptr[h] + n)..(end[h] - 1)))
                  /\ UNCHANGED retry
             ELSE /\ ptr' = Set(ptr, h, ptr[h] + n)
                  /\ retry' = Set(retry, h, retry[h] + 1)
                  /\ UNCHANGED <<wpc, refused>>
    BY <1>2 DEF write_call, Advance, Taken
  <2>2. wpc[h] = "call" /\ UNCHANGED <<driver, console, robbed, struct, mpc, cpc, end>>
    BY <1>2 DEF write_call
  <2>3. out' \in [Port -> Seq(Handle \X (0..(MaxBytes - 1)))]
    <3>1. port[h] \in Port /\ out[port[h]] \in Seq(Handle \X (0..(MaxBytes - 1)))
      BY DEF TypeOK
    <3>2. out[port[h]] \o Taken(h, n) \in Seq(Handle \X (0..(MaxBytes - 1)))
      BY <2>2, <3>1, TakenFacts, ConcatProperties
    <3> QED
      BY <2>1, <3>1, <3>2 DEF TypeOK
  <2>4. /\ n \in Nat /\ ptr[h] \in Nat /\ end[h] \in Nat
        /\ ptr[h] < end[h] /\ ptr[h] + n <= end[h] /\ end[h] <= MaxBytes
    BY <2>2, TakenFacts
  <2>5. ASSUME ptr[h] + n = end[h] \/ LastRetry(h) PROVE TypeOK' /\ Remaining'
    <3>1. /\ wpc' = [wpc EXCEPT ![h] = "idle"] /\ ptr' = [ptr EXCEPT ![h] = end[h]]
          /\ refused' = [refused EXCEPT ![h] = refused[h] \cup ((ptr[h] + n)..(end[h] - 1))]
          /\ UNCHANGED retry
      BY <2>1, <2>5
    <3>2. refused[h] \cup ((ptr[h] + n)..(end[h] - 1)) \in SUBSET (0..(MaxBytes - 1))
      BY <2>4 DEF TypeOK
    <3>3. refused' \in [Handle -> SUBSET (0..(MaxBytes - 1))]
      BY <3>1, <3>2, Zenon DEF TypeOK
    <3> QED
      BY <2>2, <2>3, <2>4, <3>1, <3>3 DEF TypeOK, struct, Remaining
  <2>6. ASSUME ~(ptr[h] + n = end[h] \/ LastRetry(h)) PROVE TypeOK' /\ Remaining'
    <3>1. /\ ptr' = [ptr EXCEPT ![h] = ptr[h] + n] /\ retry' = [retry EXCEPT ![h] = retry[h] + 1]
          /\ UNCHANGED <<wpc, refused>>
      BY <2>1, <2>6
    <3>2. ptr[h] + n < end[h]
      BY <2>4, <2>6
    <3>3. retry[h] + 1 \in 0..(RetryMax - 1)
      <4>1. retry[h] \in 0..(RetryMax - 1) /\ retry[h] + 1 # RetryMax
        BY <2>6 DEF LastRetry, TypeOK
      <4> QED
        BY <4>1
    <3> QED
      BY <2>2, <2>3, <2>4, <3>1, <3>2, <3>3, SMTT(60) DEF TypeOK, struct, Remaining
  <2>7. TypeOK' /\ Remaining'
    BY <2>5, <2>6
  <2>8. DriverInv'
    BY <2>2 DEF DriverInv, LiveHasDriver, NoDriverLeft, ReaderSafe, Initialized, struct
  <2> QED
    BY <2>7, <2>8
<1> QED
  BY <1>1, <1>2

LEMMA HandleStep == HandleInv /\ [Next]_vars => HandleInv'
<1> SUFFICES ASSUME HandleInv, [Next]_vars PROVE HandleInv'
  OBVIOUS
<1>1. CASE ConsoleInstall
  BY <1>1, DriverStep
<1>2. ASSUME NEW h \in Handle, Calls(h) PROVE HandleInv'
  BY <1>2, CallStep, DriverStep DEF Calls
<1>3. ASSUME NEW h \in Handle, Owner(h) PROVE HandleInv'
  BY <1>3, CallStep, DriverStep DEF Owner
<1>4. ASSUME NEW h \in Handle, CtrlTask(h) PROVE HandleInv'
  BY <1>4, CallStep
<1>5. ASSUME NEW h \in Handle, esp_audio_pcm_write(h) \/ write_call(h) PROVE HandleInv'
  BY <1>5, WriteStep
<1>6. CASE UNCHANGED vars
  BY <1>6 DEF vars, struct, write, HandleInv, TypeOK, Remaining, DriverInv, LiveHasDriver,
              NoDriverLeft, ReaderSafe, Initialized
<1> QED
  BY <1>1, <1>2, <1>3, <1>4, <1>5, <1>6 DEF Next

LEMMA HandleInvariant == Spec => []HandleInv
  BY InitHandleInv, HandleStep, PTL DEF Spec

(* For any handles on any ports, however their calls and a console's        *)
(* installs interleave: counters stay in range, the retries of a write too. *)
THEOREM HandleTypes == Spec => []TypeOK
<1>1. HandleInv => TypeOK
  BY DEF HandleInv
<1> QED
  BY HandleInvariant, <1>1, PTL

(* A handle has its driver from new to delete unless the delete of a handle *)
(* on the same port took it.                                                *)
THEOREM HandleDriver == Spec => []LiveHasDriver
<1>1. HandleInv => LiveHasDriver
  BY DEF HandleInv, DriverInv
<1> QED
  BY HandleInvariant, <1>1, PTL

(* No driver is left installed when the last handle on its port is gone.    *)
THEOREM HandleClean == Spec => []NoDriverLeft
<1>1. HandleInv => NoDriverLeft
  BY DEF HandleInv, DriverInv
<1> QED
  BY HandleInvariant, <1>1, PTL

(* Delete frees nothing and uninstalls nothing under its own control task.  *)
THEOREM HandleReader == Spec => []ReaderSafe
<1>1. HandleInv => ReaderSafe
  BY DEF HandleInv, DriverInv
<1> QED
  BY HandleInvariant, <1>1, PTL

-----------------------------------------------------------------------------
(* What a port was given, as numbers of one handle's bytes.                 *)
Mine(g) == {b \in 0..(MaxBytes - 1) : <<g, b>> \in Sent(port[g])}
Ascending(g) ==
  \A i, j \in DOMAIN out[port[g]] :
    /\ i < j
    /\ out[port[g]][i][1] = g /\ out[port[g]][j][1] = g
    => out[port[g]][i][2] < out[port[g]][j][2]
Truthful(g) ==
  /\ Mine(g) \cup refused[g] = 0..(ptr[g] - 1)
  /\ Mine(g) \cap refused[g] = {}
  /\ Ascending(g)

LEMMA WritesTruthfulIsTruthful == WritesTruthful <=> \A g \in Handle : Truthful(g)
  BY DEF WritesTruthful, Truthful, Mine, Ascending

LEMMA InitTruthful == Init => WritesTruthful
<1> SUFFICES ASSUME Init, NEW g \in Handle PROVE Truthful(g)
  BY WritesTruthfulIsTruthful
<1>1. port[g] \in Port /\ out[port[g]] = <<>> /\ refused[g] = {} /\ ptr[g] = 0
  BY DEF Init
<1>2. DOMAIN out[port[g]] = {}
  BY <1>1
<1> QED
  BY <1>1, <1>2 DEF Truthful, Mine, Ascending, Sent

(* A step that gives the port nothing and keeps ptr and refused.            *)
LEMMA KeptTruthful ==
  ASSUME WritesTruthful, UNCHANGED <<port, ptr, out, refused>>
  PROVE  WritesTruthful'
  BY ZenonT(60) DEF WritesTruthful, Sent

LEMMA ConcatDomain ==
  ASSUME NEW S, NEW a \in Seq(S), NEW b \in Seq(S)
  PROVE  Len(a \o b) = Len(a) + Len(b) /\ DOMAIN (a \o b) = 1..Len(a \o b)
  BY ConcatProperties, LenProperties

(* A driver call appends bytes of one handle, numbered on from ptr.         *)
LEMMA CallTruthful ==
  ASSUME HandleInv, WritesTruthful, NEW h \in Handle, write_call(h), NEW g \in Handle
  PROVE  Truthful(g)'
<1>1. PICK n \in Accepts(h) :
        /\ out' = [out EXCEPT ![port[h]] = @ \o Taken(h, n)]
        /\ IF ptr[h] + n = end[h] \/ LastRetry(h)
           THEN /\ ptr' = [ptr EXCEPT ![h] = end[h]]
                /\ refused' = [refused EXCEPT ![h] = refused[h] \cup ((ptr[h] + n)..(end[h] - 1))]
           ELSE /\ ptr' = [ptr EXCEPT ![h] = ptr[h] + n]
                /\ UNCHANGED refused
  BY DEF write_call, Advance, Taken, Set
<1>2. wpc[h] = "call" /\ port' = port
  BY DEF write_call, struct
<1>3. /\ n \in Nat /\ ptr[h] \in Nat /\ end[h] \in Nat
      /\ ptr[h] < end[h] /\ ptr[h] + n <= end[h] /\ end[h] <= MaxBytes
      /\ Taken(h, n) \in Seq(Handle \X (0..(MaxBytes - 1))) /\ Len(Taken(h, n)) = n
  BY <1>2, TakenFacts
<1>4. /\ port[g] \in Port /\ port[h] \in Port
      /\ out \in [Port -> Seq(Handle \X (0..(MaxBytes - 1)))]
      /\ refused \in [Handle -> SUBSET (0..(MaxBytes - 1))] /\ ptr \in [Handle -> 0..MaxBytes]
  BY DEF HandleInv, TypeOK
<1>5. Truthful(g) /\ Truthful(h)
  BY WritesTruthfulIsTruthful
<1>6. CASE port[g] # port[h]
  <2>1. g # h /\ out'[port[g]] = out[port[g]] /\ ptr'[g] = ptr[g] /\ refused'[g] = refused[g]
    BY <1>1, <1>4, <1>6
  <2> QED
    <3>1. Sent(port[g])' = Sent(port[g])
      BY <1>2, <2>1 DEF Sent
    <3>2. Mine(g)' = Mine(g)
      BY <1>2, <3>1 DEF Mine
    <3>3. Ascending(g)'
      BY <1>2, <1>5, <2>1 DEF Truthful, Ascending
    <3> QED
      BY <1>5, <2>1, <3>2, <3>3 DEF Truthful
<1>7. CASE port[g] = port[h]
  <2> DEFINE s == out[port[h]]
             u == out'[port[h]]
  <2>1. s \in Seq(Handle \X (0..(MaxBytes - 1))) /\ u = s \o Taken(h, n)
    BY <1>1, <1>4
  <2>2. Len(u) = Len(s) + n /\ Len(s) \in Nat /\ DOMAIN u = 1..(Len(s) + n) /\ DOMAIN s = 1..Len(s)
    <3>1. Len(s) \in Nat /\ DOMAIN s = 1..Len(s)
      BY <2>1, LenProperties
    <3>2. Len(u) = Len(s) + Len(Taken(h, n)) /\ DOMAIN u = 1..Len(u)
      <4> HIDE DEF s, u
      <4> QED
        BY <1>3, <2>1, ConcatDomain
    <3>3. Len(u) = Len(s) + n
      BY <1>3, <3>2
    <3> HIDE DEF s, u
    <3> QED
      BY <3>1, <3>2, <3>3
  <2>3. \A i \in 1..Len(s) : u[i] = s[i]
    BY <1>3, <2>1, ConcatProperties
  <2>4. \A k \in 1..n : u[Len(s) + k] = <<h, ptr[h] + k - 1>>
    <3> SUFFICES ASSUME NEW k \in 1..n
                 PROVE  u[Len(s) + k] = <<h, ptr[h] + k - 1>>
      OBVIOUS
    <3>1. /\ Len(s) + k \in 1..(Len(s) + Len(Taken(h, n))) /\ Len(s) + k > Len(s)
          /\ (Len(s) + k) - Len(s) = k
      BY <1>3, <2>2, SMTT(60)
    <3>2. u[Len(s) + k] = Taken(h, n)[(Len(s) + k) - Len(s)]
      BY <1>3, <2>1, <2>2, <3>1, ConcatProperties
    <3> QED
      BY <3>1, <3>2 DEF Taken
  <2>5. \A i \in 1..(Len(s) + n) : i \notin 1..Len(s) => u[i] = <<h, ptr[h] + (i - Len(s)) - 1>>
    <3> SUFFICES ASSUME NEW i \in 1..(Len(s) + n), i \notin 1..Len(s)
                 PROVE  u[i] = <<h, ptr[h] + (i - Len(s)) - 1>>
      OBVIOUS
    <3>1. i - Len(s) \in 1..n /\ Len(s) + (i - Len(s)) = i
      BY <1>3, <2>2
    <3> QED
      BY <2>4, <3>1
  <2> HIDE DEF s, u
  <2>6. CASE g # h
    <3>1. ptr'[g] = ptr[g] /\ refused'[g] = refused[g]
      BY <1>1, <1>4, <2>6
    <3>2. \A b : (\E i \in DOMAIN u : u[i] = <<g, b>>) <=> (\E i \in DOMAIN s : s[i] = <<g, b>>)
      <4>1. \A i \in DOMAIN u : i \in DOMAIN s \/ u[i][1] = h
        BY <2>2, <2>5
      <4>2. \A i \in DOMAIN s : i \in DOMAIN u /\ u[i] = s[i]
        BY <1>3, <2>2, <2>3
      <4>3. \A b : <<g, b>>[1] = g
        OBVIOUS
      <4> QED
        BY <2>6, <4>1, <4>2, <4>3
    <3>3. Mine(g)' = Mine(g)
      BY <1>2, <1>7, <3>2 DEF Mine, Sent, s, u
    <3>4. Ascending(g)'
      <4> SUFFICES ASSUME NEW i \in DOMAIN u, NEW j \in DOMAIN u,
                          i < j, u[i][1] = g, u[j][1] = g
                   PROVE  u[i][2] < u[j][2]
        BY <1>2, <1>7 DEF Ascending, u
      <4>1. i \in DOMAIN s /\ j \in DOMAIN s
        BY <2>2, <2>5, <2>6
      <4> QED
        BY <1>5, <1>7, <2>2, <2>3, <4>1 DEF Truthful, Ascending, s
    <3> QED
      BY <1>5, <3>1, <3>3, <3>4 DEF Truthful
  <2>7. CASE g = h
    <3>1. \A i \in DOMAIN s : s[i][1] = h => s[i][2] \in Mine(h)
      <4> SUFFICES ASSUME NEW i \in DOMAIN s, s[i][1] = h PROVE s[i][2] \in Mine(h)
        OBVIOUS
      <4>1. s[i] \in Handle \X (0..(MaxBytes - 1))
        BY <2>1, <2>2
      <4>2. s[i] = <<h, s[i][2]>> /\ s[i][2] \in 0..(MaxBytes - 1)
        BY <4>1
      <4> QED
        BY <4>2 DEF Mine, Sent, s
    <3>2. Mine(h) \subseteq 0..(ptr[h] - 1)
      BY <1>5 DEF Truthful
    <3>3. Ascending(h)'
      <4> SUFFICES ASSUME NEW i \in DOMAIN u, NEW j \in DOMAIN u,
                          i < j, u[i][1] = h, u[j][1] = h
                   PROVE  u[i][2] < u[j][2]
        BY <1>2 DEF Ascending, u
      <4>1. CASE j \in 1..Len(s)
        <5>1. i \in 1..Len(s)
          BY <2>2, <4>1
        <5> QED
          BY <1>5, <2>2, <2>3, <4>1, <5>1 DEF Truthful, Ascending, s
      <4>2. CASE i \in 1..Len(s) /\ j \notin 1..Len(s)
        <5>1. u[i][2] \in 0..(ptr[h] - 1)
          BY <2>2, <2>3, <3>1, <3>2, <4>2
        <5>2. u[j][2] = ptr[h] + (j - Len(s)) - 1 /\ j - Len(s) \in 1..n
          BY <1>3, <2>2, <2>5, <4>2, SMTT(60)
        <5> QED
          BY <1>3, <5>1, <5>2, SMTT(60)
      <4>3. CASE i \notin 1..Len(s) /\ j \notin 1..Len(s)
        <5>1. u[i][2] = ptr[h] + (i - Len(s)) - 1 /\ u[j][2] = ptr[h] + (j - Len(s)) - 1
          BY <2>2, <2>5, <4>3
        <5> QED
          BY <1>3, <2>2, <5>1
      <4> QED
        BY <4>1, <4>2, <4>3
    <3>4. Mine(h)' = Mine(h) \cup (ptr[h]..(ptr[h] + n - 1))
      <4>1. \A b \in 0..(MaxBytes - 1) :
              (\E i \in DOMAIN u : u[i] = <<h, b>>)
                <=> (\E i \in DOMAIN s : s[i] = <<h, b>>) \/ b \in ptr[h]..(ptr[h] + n - 1)
        <5> SUFFICES ASSUME NEW b \in 0..(MaxBytes - 1)
                     PROVE  (\E i \in DOMAIN u : u[i] = <<h, b>>)
                              <=> \/ \E i \in DOMAIN s : s[i] = <<h, b>>
                                  \/ b \in ptr[h]..(ptr[h] + n - 1)
          OBVIOUS
        <5>1. ASSUME NEW i \in DOMAIN u, u[i] = <<h, b>>, i \notin DOMAIN s
              PROVE  b \in ptr[h]..(ptr[h] + n - 1)
          <6>1. u[i] = <<h, ptr[h] + (i - Len(s)) - 1>> /\ i - Len(s) \in 1..n
            BY <1>3, <2>2, <2>5, <5>1, SMTT(60)
          <6> QED
            BY <1>3, <5>1, <6>1, SMTT(60)
        <5>2. ASSUME b \in ptr[h]..(ptr[h] + n - 1)
              PROVE  \E i \in DOMAIN u : u[i] = <<h, b>>
          <6>1. b - ptr[h] + 1 \in 1..n /\ ptr[h] + (b - ptr[h] + 1) - 1 = b
            BY <1>3, <5>2, SMTT(60)
          <6>2. u[Len(s) + (b - ptr[h] + 1)] = <<h, b>>
            BY <2>4, <6>1
          <6>3. \A k \in 1..n : Len(s) + k \in DOMAIN u
            BY <1>3, <2>2
          <6>4. Len(s) + (b - ptr[h] + 1) \in DOMAIN u
            BY <6>1, <6>3
          <6> QED
            BY <6>2, <6>4
        <5>3. ASSUME NEW i \in DOMAIN s, s[i] = <<h, b>> PROVE \E k \in DOMAIN u : u[k] = <<h, b>>
          BY <1>3, <2>2, <2>3, <5>3
        <5>4. ASSUME NEW i \in DOMAIN u, u[i] = <<h, b>>, i \in DOMAIN s
              PROVE  \E k \in DOMAIN s : s[k] = <<h, b>>
          BY <2>2, <2>3, <5>4
        <5> QED
          BY <5>1, <5>2, <5>3, <5>4
      <4>2. Mine(h) = {b \in 0..(MaxBytes - 1) : \E i \in DOMAIN s : s[i] = <<h, b>>}
        BY DEF Mine, Sent, s
      <4>3. Mine(h)' = {b \in 0..(MaxBytes - 1) : \E i \in DOMAIN u : u[i] = <<h, b>>}
        BY <1>2 DEF Mine, Sent, u
      <4>4. ptr[h]..(ptr[h] + n - 1) \subseteq 0..(MaxBytes - 1)
        BY <1>3
      <4> QED
        BY <4>1, <4>2, <4>3, <4>4
    <3>5. /\ Mine(h) \cup refused[h] = 0..(ptr[h] - 1)
          /\ Mine(h) \cap refused[h] = {}
      BY <1>5 DEF Truthful
    <3>6. CASE ptr[h] + n = end[h] \/ LastRetry(h)
      <4>1. ptr'[h] = end[h] /\ refused'[h] = refused[h] \cup ((ptr[h] + n)..(end[h] - 1))
        BY <1>1, <1>4, <3>6
      <4>2. Mine(h)' \cup refused'[h] = 0..(ptr'[h] - 1)
        BY <1>3, <3>4, <3>5, <4>1
      <4>3. Mine(h)' \cap refused'[h] = {}
        BY <1>3, <3>4, <3>5, <4>1
      <4> QED
        BY <2>7, <3>3, <4>2, <4>3 DEF Truthful
    <3>7. CASE ~(ptr[h] + n = end[h] \/ LastRetry(h))
      <4>1. ptr'[h] = ptr[h] + n /\ refused'[h] = refused[h]
        BY <1>1, <1>4, <3>7
      <4>2. Mine(h)' \cup refused'[h] = 0..(ptr'[h] - 1)
        BY <1>3, <3>4, <3>5, <4>1
      <4>3. Mine(h)' \cap refused'[h] = {}
        BY <1>3, <3>4, <3>5, <4>1
      <4> QED
        BY <2>7, <3>3, <4>2, <4>3 DEF Truthful
    <3> QED
      BY <3>6, <3>7
  <2> QED
    BY <2>6, <2>7
<1> QED
  BY <1>6, <1>7

LEMMA TruthfulStep == HandleInv /\ WritesTruthful /\ [Next]_vars => WritesTruthful'
<1> SUFFICES ASSUME HandleInv, WritesTruthful, [Next]_vars PROVE WritesTruthful'
  OBVIOUS
<1>1. ASSUME NEW h \in Handle, write_call(h) PROVE WritesTruthful'
  <2>1. (\A g \in Handle : Truthful(g))'
    BY <1>1, CallTruthful
  <2> QED
    BY <2>1 DEF WritesTruthful, Truthful, Mine, Ascending
<1>2. ASSUME NEW h \in Handle, esp_audio_pcm_write(h) PROVE WritesTruthful'
  <2>1. ptr' = ptr
    BY <1>2 DEF esp_audio_pcm_write, Between, HandleInv, Remaining, TypeOK, Set
  <2> QED
    BY <1>2, <2>1, KeptTruthful DEF esp_audio_pcm_write, struct
<1>3. ASSUME NEW h \in Handle, Calls(h) PROVE WritesTruthful'
  BY <1>3, KeptTruthful DEF Calls, esp_audio_pcm_new, esp_audio_pcm_open, esp_audio_pcm_close,
       esp_audio_pcm_ctrl_start, esp_audio_pcm_ctrl_stop, struct, write
<1>4. ASSUME NEW h \in Handle, Owner(h) \/ CtrlTask(h) PROVE WritesTruthful'
  BY <1>4, KeptTruthful DEF Owner, ctrl_stopped, delete_close, deinit, CtrlTask, ctrl_loop,
       ctrl_read, struct, write
<1>5. CASE ConsoleInstall \/ UNCHANGED vars
  BY <1>5, KeptTruthful DEF ConsoleInstall, vars, struct, write
<1> QED
  BY <1>1, <1>2, <1>3, <1>4, <1>5 DEF Next

(* For any number of retries and bytes, and whoever takes a driver away in  *)
(* the middle: every byte of a finished write was accepted by its port's    *)
(* driver or reported, never both, and accepted in order and once.          *)
THEOREM HandleWrites == Spec => []WritesTruthful
  BY InitHandleInv, HandleStep, InitTruthful, TruthfulStep, PTL DEF Spec
=============================================================================
