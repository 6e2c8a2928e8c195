------------------------------ MODULE NvsProofs ------------------------------
(***************************************************************************)
(* Proofs about Nvs, for every set of credentials, every limit of the      *)
(* frame rate and any number of writes and power losses.  What survives a  *)
(* power loss is any mixture of what was set and what was committed: the   *)
(* invariant FlashInv says at each place of the write callback how far the *)
(* two agree with the credentials of the phone.                            *)
(***************************************************************************)
EXTENDS Nvs, TLAPS

\* What is in flash and on its way there: the strings, ...
TextType ==
    /\ DOMAIN stored = Vars /\ DOMAIN durable = Vars /\ net \in Texts
    /\ \A v \in Strings : /\ stored[v] \in Texts \cup {missing}
                          /\ durable[v] \in Texts \cup {missing}

\* ... and the numbers.
MaybeInt == Int \cup {missing}
NumberType ==
    /\ DOMAIN stored = Vars /\ DOMAIN durable = Vars /\ value \in Int
    /\ \A v \in Numbers : stored[v] \in MaybeInt /\ durable[v] \in MaybeInt

(* What the proofs need of the constants.                                  *)
LEMMA Constants ==
    /\ Raw \subseteq Int
    /\ \A n \in Nets : n # "" /\ n # "default" /\ n # missing
BY NvsAssumption

(* The variables are strings or numbers.                                   *)
LEMMA Kinds ==
    /\ Credentials \subseteq Strings /\ Strings \subseteq Vars /\ Numbers \subseteq Vars
    /\ Strings \cap Numbers = {} /\ "seq" \in Numbers
    /\ "wifi_ssid" \in Credentials /\ "wifi_psk" \in Credentials
BY DEF Vars, Strings, Numbers, Credentials

(* Numbers may be written where a variable may be missing.                 *)
LEMMA MaybeInts == missing \in MaybeInt /\ Raw \subseteq MaybeInt /\ \A n \in Int : n \in MaybeInt
BY Constants DEF MaybeInt

(* The remainder of C is an integer.                                       *)
LEMMA RemainderType == ASSUME NEW x \in Int PROVE Remainder(x) \in Int
BY DEF Remainder

(* The limits of the sequence number.                                      *)
LEMMA SeqClamped == ASSUME NEW n \in Int PROVE ClampSeq(n) \in 0..255
BY DEF ClampSeq, Lesser, Greater

(* The limits of the frame rate.                                           *)
LEMMA FpsClamped == ASSUME NEW n \in Int PROVE ClampFps(n) \in 1..MaxFps
<1> DEFINE m == Greater(n, 0)
<1>1. MaxFps \in Nat \ {0} /\ TargetFps \in 1..MaxFps
    BY NvsAssumption
<1>2. m \in Nat
    BY DEF Greater
<1> HIDE DEF m
<1>3. (IF m > MaxFps \/ m <= 0 THEN TargetFps ELSE Lesser(m, MaxFps)) \in 1..MaxFps
    BY <1>1, <1>2 DEF Lesser
<1> QED BY <1>3 DEF ClampFps, m

(* What is stored keeps its types, whoever writes and whatever a power     *)
(* loss leaves of it: the strings, ...                                     *)
LEMMA TextsTyped == Spec => []TextType
<1> USE DEF TextType
<1>1. Init => TextType
  <2> SUFFICES ASSUME Init PROVE TextType
      OBVIOUS
  <2>1. PICK raw \in [Numbers -> Raw \cup {missing}] :
            stored = [v \in Vars |-> IF v \in Numbers THEN raw[v] ELSE missing]
      BY DEF Init
  <2>2. DOMAIN stored = Vars /\ durable = stored /\ net = ""
      BY <2>1 DEF Init
  <2>3. ASSUME NEW v \in Strings PROVE stored[v] = missing
    <3>1. v \in Vars /\ v \notin Numbers
        BY Kinds
    <3> QED BY <2>1, <3>1
  <2> QED BY <2>2, <2>3 DEF Texts
<1>2. TextType /\ [Next]_vars => TextType'
  <2> SUFFICES ASSUME TextType, [Next]_vars PROVE TextType'
      OBVIOUS
  <2>1. CASE Boot
      BY <2>1 DEF Boot, flash, phone, rest
  <2>2. CASE Erase
      BY <2>2, Kinds DEF Erase, phone, rest
  <2>3. CASE Crash
    <3>1. PICK kept \in SUBSET Vars :
              stored' = [v \in Vars |-> IF v \in kept THEN stored[v] ELSE durable[v]]
        BY <2>3 DEF Crash
    <3>2. DOMAIN stored' = Vars /\ \A v \in Vars : stored'[v] \in {stored[v], durable[v]}
        BY <3>1
    <3>3. durable' = stored' /\ value' = 0 /\ net' = ""
        BY <2>3 DEF Crash
    <3> QED BY <3>2, <3>3, Kinds DEF Texts
  <2>4. CASE Server
      BY <2>4 DEF Server, StartServer, OnSync, StopServer, HostResets, GapEvent, OnGapEvent,
                  ServerStep, flash, phone, rest
  <2>5. CASE Phone
    <3>1. CASE WriteReceived
        BY <3>1 DEF WriteReceived, PhoneStep, flash, rest, Texts
    <3>2. CASE Apply
        BY <3>2 DEF Apply, Use, PhoneStep, flash, rest
    <3>3. ASSUME NEW a, NEW v \in Credentials, NEW b, Save(a, v, b) PROVE TextType'
        BY <3>3, Kinds DEF Save, Set, PhoneStep, flash, rest
    <3>4. ASSUME NEW a, NEW v \in Credentials, NEW b, Saved(a, v, b) PROVE TextType'
        BY <3>4, Kinds DEF Saved, Commit, PhoneStep, flash, rest
    <3>5. CASE NotifyUpdated
        BY <3>5 DEF NotifyUpdated, PhoneStep, flash, rest, Texts
    <3> QED
        BY <2>5, <3>1, <3>2, <3>3, <3>4, <3>5
        DEF Phone, SaveSsid, SavePsk, CommitSsid, CommitPsk, Credentials
  <2>6. CASE Rest
    <3>1. ASSUME NEW v \in Strings, NEW x \in Texts, RestSet(v, x) PROVE TextType'
        BY <3>1, Kinds DEF RestSet, Set, RestStep, phone, flash
    <3>2. ASSUME NEW v \in Numbers, NEW x \in Raw, RestSet(v, x) PROVE TextType'
        BY <3>2, Kinds DEF RestSet, Set, RestStep, phone, flash
    <3>3. ASSUME NEW x \in Raw, RestSeq(x) PROVE TextType'
        BY <3>3, Kinds
        DEF RestSeq, Set, RestStep, phone, flash
    <3>4. CASE RestCommit
        BY <3>4, Kinds DEF RestCommit, Commit, RestStep, phone, flash
    <3>5. CASE RestUses
        BY <3>5, Kinds DEF RestUses, Commit, RestStep, phone, flash
    <3> QED BY <2>6, <3>1, <3>2, <3>3, <3>4, <3>5 DEF Rest
  <2>7. CASE UNCHANGED vars
      BY <2>7 DEF vars, flash, phone, rest
  <2> QED BY <2>1, <2>2, <2>3, <2>4, <2>5, <2>6, <2>7 DEF Next
<1> QED BY <1>1, <1>2, PTL DEF Spec

(* ... and the numbers.                                                    *)
LEMMA NumbersTyped == Spec => []NumberType
<1> USE DEF NumberType
<1>1. Init => NumberType
  <2> SUFFICES ASSUME Init PROVE NumberType
      OBVIOUS
  <2>1. PICK raw \in [Numbers -> Raw \cup {missing}] :
            stored = [v \in Vars |-> IF v \in Numbers THEN raw[v] ELSE missing]
      BY DEF Init
  <2>2. DOMAIN stored = Vars /\ durable = stored /\ value = 0
      BY <2>1 DEF Init
  <2>3. \A v \in Numbers : stored[v] \in Raw \cup {missing}
      BY <2>1, Kinds
  <2> QED BY <2>2, <2>3, MaybeInts
<1>2. NumberType /\ [Next]_vars => NumberType'
  <2> SUFFICES ASSUME NumberType, [Next]_vars PROVE NumberType'
      OBVIOUS
  <2>1. CASE Boot
      BY <2>1 DEF Boot, flash, phone, rest
  <2>2. CASE Erase
      BY <2>2, MaybeInts, Kinds DEF Erase, phone, rest
  <2>3. CASE Crash
    <3>1. PICK kept \in SUBSET Vars :
              stored' = [v \in Vars |-> IF v \in kept THEN stored[v] ELSE durable[v]]
        BY <2>3 DEF Crash
    <3>2. DOMAIN stored' = Vars /\ \A v \in Vars : stored'[v] \in {stored[v], durable[v]}
        BY <3>1
    <3>3. durable' = stored' /\ value' = 0
        BY <2>3 DEF Crash
    <3>4. \A v \in Numbers : stored'[v] \in MaybeInt
        BY <3>2, Kinds
    <3> QED BY <3>2, <3>3, <3>4
  <2>4. CASE Server
      BY <2>4 DEF Server, StartServer, OnSync, StopServer, HostResets, GapEvent, OnGapEvent,
                  ServerStep, flash, phone, rest
  <2>5. CASE Phone
    <3>1. CASE WriteReceived
        BY <3>1 DEF WriteReceived, PhoneStep, flash, rest, Texts
    <3>2. CASE Apply
        BY <3>2 DEF Apply, Use, PhoneStep, flash, rest
    <3>3. ASSUME NEW a, NEW v \in Credentials, NEW b, Save(a, v, b) PROVE NumberType'
        BY <3>3, Kinds DEF Save, Set, PhoneStep, flash, rest
    <3>4. ASSUME NEW a, NEW v \in Credentials, NEW b, Saved(a, v, b) PROVE NumberType'
        BY <3>4, Kinds DEF Saved, Commit, PhoneStep, flash, rest
    <3>5. CASE NotifyUpdated
        BY <3>5 DEF NotifyUpdated, PhoneStep, flash, rest, Texts
    <3> QED
        BY <2>5, <3>1, <3>2, <3>3, <3>4, <3>5
        DEF Phone, SaveSsid, SavePsk, CommitSsid, CommitPsk, Credentials
  <2>6. CASE Rest
    <3>1. ASSUME NEW v \in Strings, NEW x \in Texts, RestSet(v, x) PROVE NumberType'
        BY <3>1, Kinds DEF RestSet, Set, RestStep, phone, flash
    <3>2. ASSUME NEW v \in Numbers, NEW x \in Raw, RestSet(v, x) PROVE NumberType'
        BY <3>2, MaybeInts, Kinds DEF RestSet, Set, RestStep, phone, flash
    <3>3. ASSUME NEW x \in Raw, RestSeq(x) PROVE NumberType'
        BY <3>3, Kinds, MaybeInts, Constants, RemainderType
        DEF RestSeq, Set, RestStep, phone, flash
    <3>4. CASE RestCommit
        BY <3>4, Kinds DEF RestCommit, Commit, RestStep, phone, flash
    <3>5. CASE RestUses
        BY <3>5, Kinds DEF RestUses, Commit, RestStep, phone, flash
    <3> QED BY <2>6, <3>1, <3>2, <3>3, <3>4, <3>5 DEF Rest
  <2>7. CASE UNCHANGED vars
      BY <2>7 DEF vars, flash, phone, rest
  <2> QED BY <2>1, <2>2, <2>3, <2>4, <2>5, <2>6, <2>7 DEF Next
<1> QED BY <1>1, <1>2, PTL DEF Spec

\* What is in use, and where the server and the two writers are.
UseType ==
    /\ DOMAIN g_mcu = Vars
    /\ \A v \in Strings : g_mcu[v] \in Texts \cup {"default"}
    /\ \A v \in Numbers : g_mcu[v] \in Int
ServerType ==
    /\ up \in BOOLEAN /\ advertising \in BOOLEAN /\ connected \in BOOLEAN /\ mute \in BOOLEAN
    /\ ble \in {"off", "starting", "up"}
    /\ gap \in {"none", "connect", "failed", "complete", "disconnect"}
WriterType ==
    /\ bpc \in {"idle", "memory", "clear_psk", "use_ssid", "use_psk",
                "set_ssid", "commit_ssid", "set_psk", "commit_psk", "notify"}
    /\ bpc # "idle" => net \in Nets
    /\ rpc \in Vars \cup {"idle", "use"}
    /\ last \in Nets \cup {"none"} /\ clean \in BOOLEAN

(* Before a boot the variables are there.                                  *)
LEMMA NothingLoaded ==
    /\ DOMAIN Nothing = Vars
    /\ \A v \in Strings : Nothing[v] = "default"
    /\ \A v \in Numbers : Nothing[v] = 0
BY Kinds DEF Nothing

(* What a boot loads can be used.                                          *)
LEMMA BootLoads ==
    ASSUME TextType, NumberType, Boot
    PROVE  UseType'
<1>0. \A n \in (0..255) \cup (1..MaxFps) : n \in Int
  <2>1. MaxFps \in Nat
      BY NvsAssumption
  <2> QED BY <2>1
<1>1. PICK long \in [Strings -> BOOLEAN], garbage \in [Numbers -> Raw],
           buffer \in {"", "garbage"} : g_mcu' = Load(long, Buffer(buffer), garbage)
    BY DEF Boot
<1>2. ASSUME NEW v \in Strings PROVE g_mcu'[v] \in Texts \cup {"default"}
  <2>1. g_mcu'[v] = LoadString(v, long, "")
      BY <1>1 DEF Load, Vars, Strings, Credentials, Buffer
  <2>2. stored[v] # missing => stored[v] \in Nets \cup {""}
      BY DEF TextType, Texts
  <2> QED BY <2>1, <2>2 DEF LoadString, Texts
<1>3. \A v \in Numbers : LoadNumber(v, garbage) \in Int
    BY Constants DEF LoadNumber, NumberType, MaybeInt
<1>4. g_mcu'["seq"] = ClampSeq(LoadNumber("seq", garbage))
    BY <1>1 DEF Load, Vars, Numbers
<1>5. g_mcu'["target_fps"] = ClampFps(LoadNumber("target_fps", garbage))
    BY <1>1 DEF Load, Vars, Numbers
<1>6. g_mcu'["seq"] \in Int
  <2>1. LoadNumber("seq", garbage) \in Int
      BY <1>3 DEF Numbers
  <2>2. ClampSeq(LoadNumber("seq", garbage)) \in 0..255
      BY <2>1, SeqClamped
  <2>3. ClampSeq(LoadNumber("seq", garbage)) \in Int
      BY <2>2, <1>0, Zenon
  <2> QED BY <1>4, <2>3, Zenon
<1>7. g_mcu'["target_fps"] \in Int
  <2>1. LoadNumber("target_fps", garbage) \in Int
      BY <1>3 DEF Numbers
  <2>2. ClampFps(LoadNumber("target_fps", garbage)) \in 1..MaxFps
      BY <2>1, FpsClamped
  <2>3. ClampFps(LoadNumber("target_fps", garbage)) \in Int
      BY <2>2, <1>0, Zenon
  <2> QED BY <1>5, <2>3, Zenon
<1>8. DOMAIN g_mcu' = Vars
    BY <1>1 DEF Load
<1> QED BY <1>2, <1>6, <1>7, <1>8 DEF UseType, Numbers

(* Every variable keeps its type, whatever is in flash, in memory nobody   *)
(* has written, or sent.                                                   *)
THEOREM NvsTypeCorrect == Spec => []TypeOK
<1> DEFINE Types == UseType /\ ServerType /\ WriterType
<1> USE DEF WriterType
<1>1. Init => Types
  <2> SUFFICES ASSUME Init PROVE Types
      OBVIOUS
  <2>1. UseType
    <3>1. g_mcu = Nothing
        BY DEF Init
    <3> QED BY <3>1, NothingLoaded DEF UseType
  <2> QED BY <2>1 DEF Init, ServerType
<1>2. Types /\ TextType /\ NumberType /\ [Next]_vars => Types'
  <2> SUFFICES ASSUME UseType, ServerType, WriterType, TextType, NumberType, [Next]_vars
               PROVE UseType' /\ ServerType' /\ WriterType'
      OBVIOUS
  <2>1. CASE Boot
    <3>1. UseType'
        BY <2>1, BootLoads
    <3>2. ServerType' /\ WriterType'
      <4>1. up' = TRUE /\ UNCHANGED <<server, phone, rest, last, clean>>
          BY <2>1 DEF Boot
      <4> QED BY <4>1 DEF server, phone, rest, ServerType
    <3> QED BY <3>1, <3>2
  <2>2. CASE Erase
      BY <2>2 DEF Erase, server, phone, rest, UseType, ServerType
  <2>3. CASE Crash
    <3>1. UseType'
      <4>1. g_mcu' = Nothing
          BY <2>3 DEF Crash
      <4> QED BY <4>1, NothingLoaded DEF UseType
    <3> QED BY <2>3, <3>1 DEF Crash, ServerType
  <2>4. CASE Server
    <3>1. UseType' /\ WriterType'
        BY <2>4 DEF Server, StartServer, OnSync, StopServer, HostResets, GapEvent, OnGapEvent,
                    ServerStep, phone, rest, UseType
    <3>2. ServerType'
        BY <2>4 DEF Server, StartServer, OnSync, StopServer, HostResets, GapEvent, OnGapEvent,
                    ServerStep, Advertise, ServerType
    <3> QED BY <3>1, <3>2
  <2>5. CASE Phone
    <3>1. ServerType'
        BY <2>5 DEF Phone, WriteReceived, Apply, Use, SaveSsid, SavePsk, Save, CommitSsid,
                    CommitPsk, Saved, NotifyUpdated, PhoneStep, server, ServerType
    <3>2. WriterType'
        BY <2>5 DEF Phone, WriteReceived, Apply, Use, SaveSsid, SavePsk, Save, CommitSsid,
                    CommitPsk, Saved, NotifyUpdated, PhoneStep, Go, rest
    <3>3. CASE Apply
      <4>1. PICK v \in Credentials, x \in Texts : g_mcu' = [g_mcu EXCEPT ![v] = x]
          BY <3>3, Kinds DEF Apply, Use, Go, Texts
      <4> QED BY <3>1, <3>2, <4>1, Kinds DEF UseType
    <3>4. CASE ~Apply
      <4>1. UNCHANGED g_mcu
          BY <2>5, <3>4 DEF Phone, WriteReceived, SaveSsid, SavePsk, Save, CommitSsid,
                            CommitPsk, Saved, NotifyUpdated
      <4> QED BY <3>1, <3>2, <4>1 DEF UseType
    <3> QED BY <3>3, <3>4
  <2>6. CASE Rest
    <3>1. ServerType'
        BY <2>6 DEF Rest, RestSet, RestSeq, RestCommit, RestUses, RestStep, server, ServerType
    <3>2. WriterType'
        BY <2>6, Kinds DEF Rest, RestSet, RestSeq, RestCommit, RestUses, RestStep, phone
    <3>3. CASE RestUses
      <4>1. g_mcu' = [g_mcu EXCEPT !["seq"] = value] /\ value \in Int
          BY <3>3 DEF RestUses, NumberType
      <4> QED BY <3>1, <3>2, <4>1, Kinds DEF UseType
    <3>4. CASE ~RestUses
      <4>1. UNCHANGED g_mcu
          BY <2>6, <3>4 DEF Rest, RestSet, RestSeq, RestCommit
      <4> QED BY <3>1, <3>2, <4>1 DEF UseType
    <3> QED BY <3>3, <3>4
  <2>7. CASE UNCHANGED vars
      BY <2>7 DEF vars, server, phone, rest, UseType, ServerType
  <2> QED BY <2>1, <2>2, <2>3, <2>4, <2>5, <2>6, <2>7 DEF Next
<1>3. Types /\ TextType /\ NumberType => TypeOK
  <2> SUFFICES ASSUME UseType, ServerType, WriterType, TextType, NumberType PROVE TypeOK
      OBVIOUS
  <2>1. \A f \in {g_mcu, stored, durable} : DOMAIN f = Vars
      BY DEF UseType, TextType
  <2>2. \A v \in Strings : /\ g_mcu[v] \in Texts \cup {"default"}
                           /\ {stored[v], durable[v]} \subseteq Texts \cup {missing}
      BY DEF UseType, TextType
  <2>3. \A v \in Numbers : /\ g_mcu[v] \in Int
                           /\ stored[v] = missing \/ stored[v] \in Int
                           /\ durable[v] = missing \/ durable[v] \in Int
      BY DEF UseType, NumberType, MaybeInt
  <2>4. net \in Texts /\ value \in Int
      BY DEF TextType, NumberType
  <2> QED BY <2>1, <2>2, <2>3, <2>4 DEF TypeOK, ServerType
<1> HIDE DEF Types
<1> QED BY <1>1, <1>2, <1>3, TextsTyped, NumbersTyped, PTL DEF Spec
-----------------------------------------------------------------------------
(* A boot leaves a sequence number that fits its byte, a frame rate the    *)
(* monitor can divide by, and only strings that were stored or configured. *)
THEOREM BootAlwaysSane == Spec => BootIsSane
<1> DEFINE Sane == /\ g_mcu'["seq"] \in 0..255 /\ g_mcu'["target_fps"] \in 1..MaxFps
                   /\ \A v \in Strings : g_mcu'[v] \in {"default", stored[v]}
<1>1. NumberType /\ Boot => Sane
  <2> SUFFICES ASSUME NumberType,
                      NEW long \in [Strings -> BOOLEAN], NEW garbage \in [Numbers -> Raw],
                      NEW buffer \in {"", "garbage"}, g_mcu' = Load(long, Buffer(buffer), garbage)
               PROVE Sane
      BY DEF Boot
  <2>1. \A v \in Numbers : LoadNumber(v, garbage) \in Int
      BY Constants DEF LoadNumber, NumberType, MaybeInt
  <2>2. g_mcu'["seq"] \in 0..255
    <3>1. g_mcu'["seq"] = ClampSeq(LoadNumber("seq", garbage))
        BY DEF Load, Vars, Numbers
    <3> QED BY <2>1, <3>1, SeqClamped DEF Numbers
  <2>3. g_mcu'["target_fps"] \in 1..MaxFps
    <3>1. g_mcu'["target_fps"] = ClampFps(LoadNumber("target_fps", garbage))
        BY DEF Load, Vars, Numbers
    <3> QED BY <2>1, <3>1, FpsClamped DEF Numbers
  <2>4. \A v \in Strings : g_mcu'[v] \in {"default", stored[v]}
    <3>1. \A v \in Strings : g_mcu'[v] = LoadString(v, long, "")
        BY DEF Load, Vars, Strings, Credentials, Buffer
    <3>2. \A v \in Strings : LoadString(v, long, "") \in {"default", stored[v]}
        BY DEF LoadString
    <3> QED BY <3>1, <3>2
  <2> QED BY <2>2, <2>3, <2>4
<1>2. NumberType => [Boot => Sane]_vars
    BY <1>1
<1> QED BY <1>2, NumbersTyped, PTL DEF BootIsSane
-----------------------------------------------------------------------------
(* A connection that is reported has been made.                            *)
GapInv ==
    /\ gap = "connect" => connected
    /\ CanBeFound

(* A node without connection advertises, unless that could not be started. *)
THEOREM AlwaysFound == Spec => []CanBeFound
<1> USE DEF GapInv, CanBeFound
<1>1. Init => GapInv
    BY DEF Init
<1>2. GapInv /\ [Next]_vars => GapInv'
  <2> SUFFICES ASSUME GapInv, [Next]_vars PROVE GapInv'
      OBVIOUS
  <2>1. CASE Boot \/ Erase
      BY <2>1 DEF Boot, Erase, server
  <2>2. CASE Crash
      BY <2>2 DEF Crash
  <2>3. CASE StartServer \/ StopServer \/ HostResets
      BY <2>3 DEF StartServer, StopServer, HostResets
  <2>4. CASE OnSync
      BY <2>4 DEF OnSync, Advertise
  <2>5. CASE GapEvent
      BY <2>5 DEF GapEvent
  <2>6. CASE OnGapEvent
      BY <2>6 DEF OnGapEvent, Advertise
  <2>7. CASE Phone
      BY <2>7 DEF Phone, WriteReceived, Apply, Use, SaveSsid, SavePsk, Save, CommitSsid,
                  CommitPsk, Saved, NotifyUpdated, PhoneStep, server
  <2>8. CASE Rest
      BY <2>8 DEF Rest, RestSet, RestSeq, RestCommit, RestUses, RestStep, server
  <2>9. CASE UNCHANGED vars
      BY <2>9 DEF vars, server
  <2> QED BY <2>1, <2>2, <2>3, <2>4, <2>5, <2>6, <2>7, <2>8, <2>9 DEF Next, Server
<1>3. GapInv => CanBeFound
    OBVIOUS
<1> QED BY <1>1, <1>2, <1>3, PTL DEF Spec
-----------------------------------------------------------------------------
Writing == {"set_ssid", "commit_ssid", "set_psk", "commit_psk", "notify"}

\* How far the flash agrees with the credentials the phone has sent.
SsidDone == stored["wifi_ssid"] = net /\ durable["wifi_ssid"] = net
PskDone == stored["wifi_psk"] = net /\ durable["wifi_psk"] = net

\* What the write callback has done at each of its places, if nothing failed
\* and nobody else wrote: whatever a power loss keeps, it keeps what was told.
FlashInv ==
    /\ ~up => bpc = "idle"
    /\ bpc # "idle" => net \in Nets
    /\ last \in Nets \cup {"none"}
    /\ DOMAIN g_mcu = Vars
    /\ bpc = "use_psk" => g_mcu["wifi_ssid"] = net
    /\ bpc \in Writing => \A c \in Credentials : g_mcu[c] = net
    /\ clean /\ bpc = "commit_ssid" => stored["wifi_ssid"] = net
    /\ clean /\ bpc \in {"set_psk", "commit_psk", "notify"} => SsidDone
    /\ clean /\ bpc = "commit_psk" => stored["wifi_psk"] = net
    /\ clean /\ bpc = "notify" => PskDone
    /\ bpc = "idle" /\ last # "none" =>
           \A c \in Credentials : stored[c] = last /\ durable[c] = last
    /\ ProvisioningSurvives

(* Credentials a phone was told are taken stay in use and in flash, through *)
(* any number of power losses, unless a string is not read or somebody      *)
(* writes others.                                                           *)
THEOREM ProvisioningAlwaysSurvives == Spec => []ProvisioningSurvives
<1> USE DEF FlashInv, ProvisioningSurvives, SsidDone, PskDone, Writing
<1>1. Init => FlashInv
    BY DEF Init, Nothing
<1>2. FlashInv /\ TextType /\ [Next]_vars => FlashInv'
  <2> SUFFICES ASSUME FlashInv, TextType, [Next]_vars PROVE FlashInv'
      OBVIOUS
  <2> USE DEF TextType
  <2>1. CASE Boot
    <3>1. PICK long \in [Strings -> BOOLEAN], garbage \in [Numbers -> Raw],
               buffer \in {"", "garbage"} :
              /\ g_mcu' = Load(long, Buffer(buffer), garbage)
              /\ unread' = \E v \in Strings : stored[v] # missing /\ ~long[v]
        BY <2>1 DEF Boot
    <3>2. bpc = "idle" /\ UNCHANGED <<stored, durable, bpc, net, last, clean>>
        BY <2>1 DEF Boot, flash, phone
    <3>3. DOMAIN g_mcu' = Vars
        BY <3>1 DEF Load
    <3>4. ASSUME last # "none", ~unread', NEW c \in Credentials PROVE g_mcu'[c] = last
      <4>1. stored[c] = last /\ last # missing /\ last # ""
          BY <3>2, <3>4, Constants
      <4>2. long[c]
          BY <3>1, <3>4, <4>1, Kinds
      <4>3. g_mcu'[c] = LoadString(c, long, Buffer(buffer))
          BY <3>1 DEF Load, Vars, Strings, Credentials
      <4> QED BY <4>1, <4>2, <4>3 DEF LoadString
    <3> QED BY <3>2, <3>3, <3>4
  <2>2. CASE Erase
      BY <2>2 DEF Erase, phone
  <2>3. CASE Crash
    <3>1. PICK kept \in SUBSET Vars :
              stored' = [v \in Vars |-> IF v \in kept THEN stored[v] ELSE durable[v]]
        BY <2>3 DEF Crash
    <3>2. \A v \in Vars : stored'[v] \in {stored[v], durable[v]}
        BY <3>1
    <3>3. ~up' /\ bpc' = "idle" /\ durable' = stored' /\ DOMAIN g_mcu' = Vars
        BY <2>3 DEF Crash, Nothing
    <3>4. last' = IF bpc = "idle" THEN last ELSE "none"
        BY <2>3 DEF Crash
    <3> QED BY <3>2, <3>3, <3>4, Kinds
  <2>4. CASE Server
      BY <2>4 DEF Server, StartServer, OnSync, StopServer, HostResets, GapEvent, OnGapEvent,
                  ServerStep, flash, phone
  <2>5. CASE Phone
    <3>1. CASE WriteReceived
        BY <3>1 DEF WriteReceived, Go, PhoneStep, flash
    <3>2. CASE Apply
        BY <3>2, Kinds DEF Apply, Use, Go, PhoneStep, flash, Credentials
    <3>3. CASE SaveSsid
        BY <3>3, Kinds DEF SaveSsid, Save, Set, Go, PhoneStep, flash
    <3>4. CASE SavePsk
        BY <3>4, Kinds DEF SavePsk, Save, Set, Go, PhoneStep, flash
    <3>5. CASE CommitSsid
        BY <3>5, Kinds DEF CommitSsid, Saved, Commit, Go, PhoneStep, flash
    <3>6. CASE CommitPsk
        BY <3>6, Kinds DEF CommitPsk, Saved, Commit, Go, PhoneStep, flash
    <3>7. CASE NotifyUpdated
        BY <3>7 DEF NotifyUpdated, Go, PhoneStep, flash, Credentials
    <3> QED BY <2>5, <3>1, <3>2, <3>3, <3>4, <3>5, <3>6, <3>7 DEF Phone
  <2>6. CASE Rest
    <3>1. ASSUME NEW v \in Vars, NEW x, RestSet(v, x) PROVE FlashInv'
        BY <3>1, Kinds DEF RestSet, Set, RestStep, phone, flash, Credentials
    <3>2. ASSUME NEW x \in Raw, RestSeq(x) PROVE FlashInv'
        BY <3>2, Kinds DEF RestSeq, Set, RestStep, phone, flash, Credentials
    <3>3. CASE RestCommit
        BY <3>3, Kinds DEF RestCommit, Commit, RestStep, phone, flash, Credentials
    <3>4. CASE RestUses
        BY <3>4, Kinds DEF RestUses, Commit, RestStep, phone, flash, Credentials
    <3> QED BY <2>6, <3>1, <3>2, <3>3, <3>4, Kinds DEF Rest
  <2>7. CASE UNCHANGED vars
      BY <2>7 DEF vars, flash, phone
  <2> QED BY <2>1, <2>2, <2>3, <2>4, <2>5, <2>6, <2>7 DEF Next
<1>3. FlashInv => ProvisioningSurvives
    OBVIOUS
<1> HIDE DEF FlashInv, ProvisioningSurvives
<1> QED BY <1>1, <1>2, <1>3, TextsTyped, PTL DEF Spec
=============================================================================
