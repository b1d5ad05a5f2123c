----------------------------- MODULE BootProofs -----------------------------
(***************************************************************************)
(* Proofs about the way of the wifi chip into service (MCBoot): for any    *)
(* number of commands, the settings of the firmware and what the driver    *)
(* believes about them (WifiControl); for all sizes, all files and any     *)
(* number of failed accesses, the upload of the firmware (FirmwareLoad).   *)
(***************************************************************************)
EXTENDS MCBoot, WellFoundedInduction, FiniteSetTheorems, SequenceTheorems, TLAPS

(* WifiControl: settings that are on their way to the firmware.            *)

\* A list of settings, whatever their values are.
IsList(list) == \E S : list \in Seq(S)

\* The value a setting of the firmware will have when the list has been sent.
Ends(k, v, list, f) ==
    \/ v = f[k] /\ \A j \in 1..Len(list) : list[j][1] # k
    \/ \E j \in 1..Len(list) : /\ list[j][1] = k /\ list[j][2] = v
                               /\ \A m \in (j + 1)..Len(list) : list[m][1] # k

\* Sending the first setting of a list changes nothing about the outcome.
LEMMA SendEnds ==
  ASSUME NEW f, NEW list, IsList(list), list # <<>>, NEW k \in DOMAIN f, NEW v, Ends(k, v, list, f),
         NEW g, g = IF Head(list)[1] \in DOMAIN f
                    THEN [f EXCEPT ![Head(list)[1]] = Head(list)[2]] ELSE f
  PROVE  IsList(Tail(list)) /\ Ends(k, v, Tail(list), g)
<1>1. /\ Len(list) \in Nat /\ Len(list) >= 1 /\ Head(list) = list[1]
      /\ IsList(Tail(list)) /\ Len(Tail(list)) = Len(list) - 1
      /\ \A j \in 1..Len(Tail(list)) : Tail(list)[j] = list[j + 1]
  <2>1. PICK S : list \in Seq(S)
    BY DEF IsList
  <2>2. Tail(list) \in Seq(S)
    BY <2>1
  <2> QED
    BY <2>1, <2>2 DEF IsList
<1>2. g[k] = IF list[1][1] = k THEN list[1][2] ELSE f[k]
  BY <1>1
<1>3. CASE v = f[k] /\ \A j \in 1..Len(list) : list[j][1] # k
  BY <1>1, <1>2, <1>3 DEF Ends
<1>4. CASE \E j \in 1..Len(list) : /\ list[j][1] = k /\ list[j][2] = v
                                   /\ \A m \in (j + 1)..Len(list) : list[m][1] # k
  <2>1. PICK j \in 1..Len(list) : /\ list[j][1] = k /\ list[j][2] = v
                                  /\ \A m \in (j + 1)..Len(list) : list[m][1] # k
    BY <1>4
  <2>2. CASE j = 1
    <3>1. v = g[k]
      BY <1>2, <2>1, <2>2
    <3>2. \A m \in 1..Len(Tail(list)) : Tail(list)[m][1] # k
      <4> SUFFICES ASSUME NEW m \in 1..Len(Tail(list)) PROVE Tail(list)[m][1] # k
        OBVIOUS
      <4>1. m + 1 \in (j + 1)..Len(list)
        BY <1>1, <2>2
      <4> QED
        BY <1>1, <2>1, <4>1
    <3> QED
      BY <1>1, <3>1, <3>2 DEF Ends
  <2>3. CASE j # 1
    <3>1. j - 1 \in 1..Len(Tail(list)) /\ Tail(list)[j - 1] = list[j]
      BY <1>1, <2>3
    <3>2. \A m \in ((j - 1) + 1)..Len(Tail(list)) : Tail(list)[m][1] # k
      <4> SUFFICES ASSUME NEW m \in ((j - 1) + 1)..Len(Tail(list)) PROVE Tail(list)[m][1] # k
        OBVIOUS
      <4>1. m + 1 \in (j + 1)..Len(list) /\ m \in 1..Len(Tail(list))
        BY <1>1, <2>3
      <4> QED
        BY <1>1, <2>1, <4>1
    <3> QED
      BY <1>1, <2>1, <3>1, <3>2 DEF Ends
  <2> QED
    BY <2>2, <2>3
<1> QED
  BY <1>1, <1>3, <1>4 DEF Ends

\* Encryption, authentication and key management that go together.
Agrees(c, a, w, p, wep, bad) ==
    /\ c = 1 => p = 4 /\ a = 0 /\ (w = 2 \/ wep)
    /\ c = 3 => p = 128 /\ a = 0 /\ (w = 4 \/ wep)
    /\ c \in {0, 2} => a = c \/ bad

\* What the settings will be when the list has been sent, for a driver that
\* believes in c.
WillAgree(c, list, f, wep, bad) ==
    \E a, w, p : /\ Ends("auth", a, list, f) /\ Ends("wsec", w, list, f)
                 /\ Ends("wpa_auth", p, list, f) /\ Agrees(c, a, w, p, wep, bad)

\* Without settings to send the firmware keeps its values.
LEMMA EmptyEnds == ASSUME NEW f, NEW k PROVE Ends(k, f[k], <<>>, f)
BY DEF Ends

\* The settings of setauth, whatever the firmware had before.
LEMMA AuthEnds ==
  ASSUME NEW f, NEW c, NEW ie
  PROVE  LET list == C!AuthSends(c, ie)
             wpa  == c.crypt = 1
         IN  /\ IsList(list)
             /\ Ends("auth", 0, list, f) /\ Ends("wsec", IF wpa THEN 2 ELSE 4, list, f)
             /\ Ends("wpa_auth", IF wpa THEN 4 ELSE 128, list, f)
<1>1. ASSUME NEW w1, NEW w2, NEW w3
      PROVE  LET l == <<<<"wpaie", ie>>, <<"wpa_auth", w1>>, <<"auth", 0>>, <<"wsec", w2>>,
                        <<"wpa_auth", w3>>>>
             IN  /\ IsList(l) /\ Ends("auth", 0, l, f) /\ Ends("wsec", w2, l, f)
                 /\ Ends("wpa_auth", w3, l, f)
  <2> DEFINE l == <<<<"wpaie", ie>>, <<"wpa_auth", w1>>, <<"auth", 0>>, <<"wsec", w2>>,
                    <<"wpa_auth", w3>>>>
         S == {<<"wpaie", ie>>, <<"wpa_auth", w1>>, <<"auth", 0>>, <<"wsec", w2>>, <<"wpa_auth", w3>>}
  <2>1. IsList(l)
    <3>1. l \in Seq(S)
      OBVIOUS
    <3> QED
      BY <3>1 DEF IsList
  <2>2. /\ Len(l) = 5 /\ l[1] = <<"wpaie", ie>> /\ l[2] = <<"wpa_auth", w1>> /\ l[3] = <<"auth", 0>>
        /\ l[4] = <<"wsec", w2>> /\ l[5] = <<"wpa_auth", w3>>
    OBVIOUS
  <2> HIDE DEF l
  <2>3. l[3][1] = "auth" /\ l[3][2] = 0 /\ \A m \in (3 + 1)..Len(l) : l[m][1] # "auth"
    BY <2>2
  <2>4. l[4][1] = "wsec" /\ l[4][2] = w2 /\ \A m \in (4 + 1)..Len(l) : l[m][1] # "wsec"
    BY <2>2
  <2>5. l[5][1] = "wpa_auth" /\ l[5][2] = w3 /\ \A m \in (5 + 1)..Len(l) : l[m][1] # "wpa_auth"
    BY <2>2
  <2>6. 3 \in 1..Len(l) /\ 4 \in 1..Len(l) /\ 5 \in 1..Len(l)
    BY <2>2
  <2>7. Ends("auth", 0, l, f) /\ Ends("wsec", w2, l, f) /\ Ends("wpa_auth", w3, l, f)
    BY <2>3, <2>4, <2>5, <2>6 DEF Ends
  <2> QED
    BY <2>1, <2>7 DEF l
<1>2. C!Wpa = 1
  BY DEF C!Wpa
<1> QED
  BY <1>1, <1>2 DEF C!AuthSends

\* A list of one setting.
LEMMA OneEnds ==
  ASSUME NEW f, NEW s, NEW v
  PROVE  /\ IsList(<<<<s, v>>>>)
         /\ Ends(s, v, <<<<s, v>>>>, f)
         /\ \A k : k # s => Ends(k, f[k], <<<<s, v>>>>, f)
<1> DEFINE l == <<<<s, v>>>>
<1>1. IsList(l)
  <2>1. l \in Seq({<<s, v>>})
    OBVIOUS
  <2> QED
    BY <2>1 DEF IsList
<1>2. Len(l) = 1 /\ l[1] = <<s, v>> /\ l[1][1] = s /\ l[1][2] = v
  OBVIOUS
<1> HIDE DEF l
<1>3. Ends(s, v, l, f)
  BY <1>2 DEF Ends
<1>4. \A k : k # s => Ends(k, f[k], l, f)
  BY <1>2 DEF Ends
<1> QED
  BY <1>1, <1>3, <1>4 DEF l

\* A list put together from two.
LEMMA TwoSettings ==
  ASSUME NEW x, NEW y
  PROVE  LET l == <<x>> \o <<y>> IN Len(l) = 2 /\ l[1] = x /\ l[2] = y
<1>1. <<x>> \in Seq({x, y}) /\ <<y>> \in Seq({x, y}) /\ Len(<<x>>) = 1 /\ Len(<<y>>) = 1
  OBVIOUS
<1>2. Len(<<x>> \o <<y>>) = 2
  BY <1>1
<1>3. (<<x>> \o <<y>>)[1] = x
  BY <1>1
<1>4. (<<x>> \o <<y>>)[2] = y
  BY <1>1
<1> QED
  BY <1>2, <1>3, <1>4

\* A WEP key.
LEMMA WepEnds ==
  ASSUME NEW f, NEW s
  PROVE  LET l == <<<<"wsec", 1>>>> \o <<<<"wsec_key", [n |-> s, algo |-> "wep"]>>>>
         IN  /\ IsList(l) /\ Ends("auth", f["auth"], l, f)
             /\ Ends("wsec", 1, l, f) /\ Ends("wpa_auth", f["wpa_auth"], l, f)
<1> DEFINE v == [n |-> s, algo |-> "wep"]
           l == <<<<"wsec", 1>>>> \o <<<<"wsec_key", v>>>>
           S == {<<"wsec", 1>>, <<"wsec_key", v>>}
<1> HIDE DEF v
<1>1. <<<<"wsec", 1>>>> \in Seq(S) /\ <<<<"wsec_key", v>>>> \in Seq(S)
  OBVIOUS
<1>2. l \in Seq(S)
  BY <1>1
<1>3. IsList(l)
  BY <1>2 DEF IsList
<1>n. Len(l) = 2 /\ l[1] = <<"wsec", 1>> /\ l[2] = <<"wsec_key", v>>
  BY TwoSettings
<1> HIDE DEF l
<1>4. l[1][1] = "wsec" /\ l[1][2] = 1 /\ l[2][1] = "wsec_key" /\ 1 \in 1..Len(l)
  BY <1>n
<1>5. \A m \in (1 + 1)..Len(l) : l[m][1] # "wsec"
  BY <1>n, <1>4
<1>6. Ends("wsec", 1, l, f)
  BY <1>4, <1>5 DEF Ends
<1>7. \A m \in 1..Len(l) : l[m][1] # "auth" /\ l[m][1] # "wpa_auth"
  BY <1>n, <1>4
<1> QED
  BY <1>3, <1>6, <1>7 DEF Ends, l, v

CtlFields == {"essid", "chan", "crypt", "key", "scansecs", "status"}

\* The elements etherbcmctl takes for an `auth' are hexadecimal.
LEMMA HexElements == \A x \in Commands : x.op = "auth" => x.ie \notin {"none", "off", "wep"}
<1> SUFFICES ASSUME NEW x \in Commands, x.op = "auth" PROVE x.ie \notin {"none", "off", "wep"}
  OBVIOUS
<1>1. CASE x \in {[op |-> "auth", ie |-> e] : e \in {"30", "dd", "7f"}}
  BY <1>1
<1>2. CASE x \in {[op |-> "channel", ok |-> TRUE, chan |-> 3], [op |-> "channel", ok |-> FALSE]}
  BY <1>2
<1>3. CASE x \in {[op |-> "crypt", arg |-> a] : a \in {"wep", "off", "aes"}}
  BY <1>3
<1>4. CASE x \in {[op |-> "essid", essid |-> e] : e \in {"net", "default"}}
  BY <1>4
<1>5. CASE \E e1, e2, e3, e4 : x = JoinText(e1, e2, e3, e4)
  BY <1>5 DEF JoinText
<1>6. CASE x \in {[op |-> "wepkey", n |-> k, ok |-> k = 1] : k \in {1, 2}}
  BY <1>6
<1>7. CASE x \in {[op |-> "wpakey", id |-> "rxkey", ether |-> TRUE, key |-> k] : k \in {"good", "bad", "no iv"}}
  <2>1. PICK k : x = [op |-> "wpakey", id |-> "rxkey", ether |-> TRUE, key |-> k]
    BY <1>7
  <2>2. x.op = "wpakey"
    BY <2>1
  <2> QED
    BY <2>2
<1>w. CASE x \in {[op |-> "wpakey", id |-> "txkey", ether |-> TRUE, key |-> k] : k \in {"good", "bad", "no iv"}}
  <2>1. PICK k : x = [op |-> "wpakey", id |-> "txkey", ether |-> TRUE, key |-> k]
    BY <1>w
  <2>2. x.op = "wpakey"
    BY <2>1
  <2> QED
    BY <2>2
<1>8. CASE x \in {[op |-> "escan", secs |-> s] : s \in {0, 2}}
  BY <1>8
<1>9. CASE x \in {[op |-> "country", ok |-> b] : b \in BOOLEAN} \cup {[op |-> "debug"]}
  BY <1>9
<1>j. x \in {JoinText("net", TRUE, TRUE, "30"), JoinText("net", TRUE, FALSE, "30"),
            JoinText("net", FALSE, TRUE, "off"), JoinText("no change", TRUE, TRUE, "dd"),
            JoinText("default", TRUE, TRUE, "off"), JoinText("net", TRUE, TRUE, "wep")} =>
        \E e1, e2, e3, e4 : x = JoinText(e1, e2, e3, e4)
  BY Zenon
<1> QED
  BY <1>1, <1>2, <1>3, <1>4, <1>5, <1>6, <1>7, <1>8, <1>9, <1>w, <1>j DEF Commands

\* The parts of the record that Effect returns.
LEMMA DoesFacts ==
  ASSUME NEW c, NEW l, NEW th
  PROVE  C!Does(c, l, th).ctl = c /\ C!Does(c, l, th).sends = l /\ C!Does(c, l, th).then = th
BY DEF C!Does

\* A change of one field of the Ctlr leaves the others alone.
LEMMA CtlChanges ==
  ASSUME NEW c, DOMAIN c = CtlFields, NEW v
  PROVE  /\ [c EXCEPT !.crypt = v].crypt = v /\ DOMAIN [c EXCEPT !.crypt = v] = CtlFields
         /\ [c EXCEPT !.crypt = v].chan = c.chan
         /\ [c EXCEPT !.chan = v].crypt = c.crypt /\ DOMAIN [c EXCEPT !.chan = v] = CtlFields
         /\ [c EXCEPT !.essid = v].crypt = c.crypt /\ DOMAIN [c EXCEPT !.essid = v] = CtlFields
         /\ [c EXCEPT !.essid = v].chan = c.chan
         /\ [c EXCEPT !.key = v].crypt = c.crypt /\ DOMAIN [c EXCEPT !.key = v] = CtlFields
         /\ [c EXCEPT !.key = v].chan = c.chan
         /\ [c EXCEPT !.scansecs = v].crypt = c.crypt /\ DOMAIN [c EXCEPT !.scansecs = v] = CtlFields
         /\ [c EXCEPT !.status = v].crypt = c.crypt /\ DOMAIN [c EXCEPT !.status = v] = CtlFields
BY DEF CtlFields

\* What remains true when a command changes neither the encryption nor a
\* setting that belongs to it.
Keeps(e) == /\ DOMAIN e.ctl = CtlFields /\ IsList(e.sends) /\ e.ctl.crypt = ctl.crypt
            /\ \A k \in {"auth", "wsec", "wpa_auth"} : Ends(k, fw[k], e.sends, fw)

\* A refused command.
Untouched(e) == /\ DOMAIN e.ctl = CtlFields /\ IsList(e.sends)
                /\ e.ctl.crypt = ctl.crypt /\ e.ctl.chan = ctl.chan

\* A command that chooses the encryption: crypt or join.
Chooses(e) == /\ DOMAIN e.ctl = CtlFields /\ IsList(e.sends) /\ e.ctl.crypt \in {0, 2}
              /\ Ends("auth", e.ctl.crypt, e.sends, fw) /\ Ends("wsec", fw["wsec"], e.sends, fw)
              /\ Ends("wpa_auth", fw["wpa_auth"], e.sends, fw)

\* A command with an information element: auth or join.
Carries(e, ie) ==
    /\ DOMAIN e.ctl = CtlFields /\ IsList(e.sends)
    /\ ie = "dd" => e.ctl.crypt = 1
    /\ ie = "30" => e.ctl.crypt = 3
    /\ ie \notin {"dd", "30"} => e.ctl.crypt = ctl.crypt
    /\ Ends("auth", 0, e.sends, fw)
    /\ Ends("wsec", IF e.ctl.crypt = 1 THEN 2 ELSE 4, e.sends, fw)
    /\ Ends("wpa_auth", IF e.ctl.crypt = 1 THEN 4 ELSE 128, e.sends, fw)

\* No settings are a list of settings.
LEMMA EmptyList == IsList(<<>>)
<1>1. <<>> \in Seq({})
  OBVIOUS
<1> QED
  BY <1>1 DEF IsList

\* setauth and its settings.
LEMMA ElementFacts ==
  ASSUME NEW c, DOMAIN c = CtlFields, c.crypt = ctl.crypt, NEW ie, NEW th
  PROVE  LET a == C!SetAuth(c, ie) IN Carries(C!Does(a, C!AuthSends(a, ie), th), ie)
<1> DEFINE a == C!SetAuth(c, ie)
           e == C!Does(a, C!AuthSends(a, ie), th)
<1>1. /\ DOMAIN a = CtlFields
      /\ ie = "dd" => a.crypt = 1
      /\ ie = "30" => a.crypt = 3
      /\ ie \notin {"dd", "30"} => a.crypt = ctl.crypt
  BY CtlChanges DEF C!SetAuth, C!Wpa, C!Wpa2
<1> HIDE DEF a
<1>2. e.ctl = a /\ e.sends = C!AuthSends(a, ie)
  BY DoesFacts
<1> HIDE DEF e
<1>3. /\ IsList(C!AuthSends(a, ie)) /\ Ends("auth", 0, C!AuthSends(a, ie), fw)
      /\ Ends("wsec", IF a.crypt = 1 THEN 2 ELSE 4, C!AuthSends(a, ie), fw)
      /\ Ends("wpa_auth", IF a.crypt = 1 THEN 4 ELSE 128, C!AuthSends(a, ie), fw)
  BY AuthEnds
<1>4. Carries(e, ie)
  BY <1>1, <1>2, <1>3 DEF Carries
<1> QED
  BY <1>4 DEF a, e

\* setcrypt and its setting.
LEMMA ChoiceFacts ==
  ASSUME NEW c, DOMAIN c = CtlFields, NEW arg \in DOMAIN C!Crypts, NEW th
  PROVE  Chooses(C!Does(C!SetCrypt(c, arg), C!CryptSends(arg), th))
<1> DEFINE a == C!SetCrypt(c, arg)
           v == C!Crypts[arg]
           e == C!Does(a, C!CryptSends(arg), th)
<1>1. v \in {0, 2}
  BY DEF C!Crypts, C!Wep
<1>2. C!CryptSends(arg) = <<<<"auth", v>>>> /\ a = [c EXCEPT !.crypt = v]
  BY DEF C!CryptSends, C!SetCrypt
<1> HIDE DEF v
<1>3. e.ctl = a /\ e.sends = <<<<"auth", v>>>>
  BY <1>2, DoesFacts
<1>4. DOMAIN a = CtlFields /\ a.crypt = v
  BY <1>2, CtlChanges
<1> HIDE DEF e, a
<1>5. /\ IsList(<<<<"auth", v>>>>) /\ Ends("auth", v, <<<<"auth", v>>>>, fw)
      /\ Ends("wsec", fw["wsec"], <<<<"auth", v>>>>, fw)
      /\ Ends("wpa_auth", fw["wpa_auth"], <<<<"auth", v>>>>, fw)
  BY OneEnds
<1>6. Chooses(e)
  BY <1>1, <1>3, <1>4, <1>5 DEF Chooses
<1> QED
  BY <1>6 DEF e, a

\* Commands that send nothing, or one setting that is none of security.
LEMMA KeepFacts ==
  ASSUME NEW c, DOMAIN c = CtlFields, c.crypt = ctl.crypt, NEW th
  PROVE  /\ Keeps(C!Does(c, <<>>, th))
         /\ \A s, v : s \notin {"auth", "wsec", "wpa_auth"} => Keeps(C!Does(c, <<<<s, v>>>>, th))
<1>1. Keeps(C!Does(c, <<>>, th))
  BY EmptyList, EmptyEnds, DoesFacts DEF Keeps
<1>2. ASSUME NEW s, NEW v, s \notin {"auth", "wsec", "wpa_auth"}
      PROVE  Keeps(C!Does(c, <<<<s, v>>>>, th))
  <2>1. /\ IsList(<<<<s, v>>>>)
        /\ \A k \in {"auth", "wsec", "wpa_auth"} : Ends(k, fw[k], <<<<s, v>>>>, fw)
    BY <1>2, OneEnds
  <2> QED
    BY <2>1, DoesFacts DEF Keeps
<1> QED
  BY <1>1, <1>2

\* The ways a command can go.
LEMMA EffectCases ==
  ASSUME NEW x \in Commands, DOMAIN ctl = CtlFields
  PROVE  LET e == C!Effect(x)
         IN  \/ e.then = "refused" /\ Untouched(e)
             \/ e.then # "refused" /\ Keeps(e) /\ x.op \notin {"auth", "join", "crypt"}
             \/ e.then # "refused" /\ Chooses(e) /\ x.op \in {"crypt", "join"}
             \/ /\ e.then # "refused" /\ x.op \in {"auth", "join"}
                /\ Carries(e, C!Element(x)) /\ C!Element(x) \notin {"none", "off", "wep"}
             \/ /\ e.then # "refused" /\ x.op = "wepkey" /\ IsList(e.sends)
                /\ DOMAIN e.ctl = CtlFields /\ e.ctl.crypt = ctl.crypt
                /\ Ends("auth", fw["auth"], e.sends, fw) /\ Ends("wsec", 1, e.sends, fw)
                /\ Ends("wpa_auth", fw["wpa_auth"], e.sends, fw)
<1> DEFINE e == C!Effect(x)
<1>n. \A c : C!JoinIfNamed(c) # "refused"
  BY DEF C!JoinIfNamed
<1>r. ASSUME NEW c, DOMAIN c = CtlFields, c.crypt = ctl.crypt, c.chan = ctl.chan
      PROVE  Untouched(C!Refused(c)) /\ C!Refused(c).then = "refused"
  BY <1>r, EmptyList, DoesFacts DEF Untouched, C!Refused
<1>1. CASE x.op = "auth"
  <2>1. e = C!Auth(x) /\ C!Element(x) = x.ie
    BY <1>1 DEF C!Effect, C!Element
  <2>2. Carries(C!Auth(x), x.ie) /\ C!Auth(x).then # "refused"
    <3>1. Carries(C!Auth(x), x.ie)
      BY ElementFacts DEF C!Auth
    <3>2. C!Auth(x).then # "refused"
      BY DoesFacts, <1>n DEF C!Auth
    <3> QED
      BY <3>1, <3>2
  <2> QED
    BY <1>1, <2>1, <2>2, HexElements
<1>2. CASE x.op = "channel"
  <2>1. e = C!Channel(x)
    BY <1>2 DEF C!Effect
  <2>2. CASE x.ok
    <3>1. e = C!Does([ctl EXCEPT !.chan = x.chan], <<>>, "end")
      BY <2>1, <2>2 DEF C!Channel
    <3>2. DOMAIN [ctl EXCEPT !.chan = x.chan] = CtlFields /\ [ctl EXCEPT !.chan = x.chan].crypt = ctl.crypt
      BY CtlChanges
    <3>3. Keeps(e)
      BY <3>1, <3>2, KeepFacts
    <3>4. e.then # "refused"
      BY <3>1, DoesFacts
    <3> QED
      BY <1>2, <3>3, <3>4
  <2>3. CASE ~x.ok
    BY <2>1, <2>3, <1>r DEF C!Channel
  <2> QED
    BY <2>2, <2>3
<1>3. CASE x.op = "crypt"
  <2>1. e = C!Crypt(x)
    BY <1>3 DEF C!Effect
  <2>2. CASE x.arg \in DOMAIN C!Crypts
    <3>1. e = C!Does(C!SetCrypt(ctl, x.arg), C!CryptSends(x.arg), C!JoinIfNamed(ctl))
      BY <2>1, <2>2 DEF C!Crypt
    <3>2. Chooses(e) /\ e.then # "refused"
      BY <2>2, <3>1, ChoiceFacts, DoesFacts, <1>n
    <3> QED
      BY <1>3, <3>2
  <2>3. CASE x.arg \notin DOMAIN C!Crypts
    BY <2>1, <2>3, <1>r DEF C!Crypt
  <2> QED
    BY <2>2, <2>3
<1>4. CASE x.op = "essid"
  <2>1. e = C!Essid(x)
    BY <1>4 DEF C!Effect
  <2>2. PICK v : e = C!Does([ctl EXCEPT !.essid = v], <<>>, "join")
    BY <2>1 DEF C!Essid
  <2>3. DOMAIN [ctl EXCEPT !.essid = v] = CtlFields /\ [ctl EXCEPT !.essid = v].crypt = ctl.crypt
    BY CtlChanges
  <2>4. Keeps(e)
    BY <2>2, <2>3, KeepFacts
  <2>5. e.then # "refused"
    BY <2>2, DoesFacts
  <2> QED
    BY <1>4, <2>4, <2>5
<1>5. CASE x.op = "join"
  <2> DEFINE named == C!Named(x)
             c == [named EXCEPT !.chan = x.chan]
             a == C!SetAuth(c, x.crypt)
  <2>1. DOMAIN named = CtlFields /\ named.crypt = ctl.crypt /\ named.chan = ctl.chan
    <3>1. \E v : named = [ctl EXCEPT !.essid = v]
      BY DEF C!Named
    <3> QED
      BY <3>1, CtlChanges
  <2>2. DOMAIN c = CtlFields /\ c.crypt = ctl.crypt
    BY <2>1, CtlChanges
  <2>3. e = C!Join(x) /\ C!Element(x) = x.crypt
    BY <1>5 DEF C!Effect, C!Element
  <2>4. CASE x.essid = "no change" /\ ctl.essid = ""
    <3>1. e = C!Refused(ctl)
      BY <2>3, <2>4 DEF C!Join
    <3> QED
      BY <3>1, <1>r
  <2>5. CASE ~(x.essid = "no change" /\ ctl.essid = "") /\ (~x.ether \/ ~x.ok)
    <3>1. e = C!Refused(named)
      BY <2>3, <2>5 DEF C!Join
    <3> QED
      BY <2>1, <3>1, <1>r
  <2>6. CASE /\ ~(x.essid = "no change" /\ ctl.essid = "") /\ ~(~x.ether \/ ~x.ok)
             /\ x.crypt \in DOMAIN C!Crypts
    <3>1. e = C!Does(C!SetCrypt(c, x.crypt), C!CryptSends(x.crypt), C!JoinIfNamed(c))
      BY <2>3, <2>6 DEF C!Join
    <3> HIDE DEF c
    <3>2. Chooses(e)
      BY <2>2, <2>6, <3>1, ChoiceFacts
    <3>3. e.then # "refused"
      BY <3>1, DoesFacts, <1>n
    <3> QED
      BY <1>5, <3>2, <3>3
  <2>7. CASE /\ ~(x.essid = "no change" /\ ctl.essid = "") /\ ~(~x.ether \/ ~x.ok)
             /\ x.crypt \notin DOMAIN C!Crypts
    <3>1. e = C!Does(a, C!AuthSends(a, x.crypt), C!JoinIfNamed(c))
      BY <2>3, <2>7 DEF C!Join
    <3> HIDE DEF c
    <3>2. Carries(e, x.crypt) /\ e.then # "refused"
      BY <2>2, <3>1, ElementFacts, DoesFacts, <1>n
    <3>3. x.crypt \notin {"none", "off", "wep"}
      BY <2>7 DEF C!Crypts
    <3> QED
      BY <1>5, <2>3, <3>2, <3>3
  <2> QED
    BY <2>4, <2>5, <2>6, <2>7
<1>6. CASE x.op = "wepkey"
  <2>1. e = C!WepKey(x)
    BY <1>6 DEF C!Effect
  <2>2. CASE ~x.ok
    BY <2>1, <2>2, <1>r DEF C!WepKey
  <2>3. CASE x.ok
    <3> DEFINE c == IF x.n = 1 THEN [ctl EXCEPT !.key = "wep"] ELSE ctl
               list == <<<<"wsec", 1>>>> \o <<<<"wsec_key", [n |-> C!WepName[x.n], algo |-> "wep"]>>>>
    <3>1. e = C!Does(c, list, "end")
      BY <2>1, <2>3 DEF C!WepKey, C!wlwepkey
    <3>2. DOMAIN c = CtlFields /\ c.crypt = ctl.crypt
      BY CtlChanges
    <3>3. /\ IsList(list) /\ Ends("auth", fw["auth"], list, fw) /\ Ends("wsec", 1, list, fw)
          /\ Ends("wpa_auth", fw["wpa_auth"], list, fw)
      BY WepEnds
    <3> HIDE DEF c, list
    <3>4. e.ctl = c /\ e.sends = list /\ e.then = "end"
      BY <3>1, DoesFacts
    <3> QED
      BY <1>6, <3>2, <3>3, <3>4
  <2> QED
    BY <2>2, <2>3
<1>7. CASE x.op = "wpakey"
  <2> DEFINE c == [ctl EXCEPT !.key = "wpa"]
  <2>0. DOMAIN c = CtlFields /\ c.crypt = ctl.crypt /\ c.chan = ctl.chan
    BY CtlChanges
  <2>1. e = C!WpaKey(x)
    BY <1>7 DEF C!Effect
  <2>2. CASE ~x.ether \/ x.key = "bad"
    <3>1. e = C!Refused(ctl)
      BY <2>1, <2>2 DEF C!WpaKey
    <3> QED
      BY <3>1, <1>r
  <2>3. CASE ~(~x.ether \/ x.key = "bad") /\ x.key = "no iv"
    <3>1. e = C!Refused(c)
      BY <2>1, <2>3 DEF C!WpaKey
    <3> HIDE DEF c
    <3> QED
      BY <2>0, <3>1, <1>r
  <2>4. CASE ~(~x.ether \/ x.key = "bad") /\ x.key # "no iv"
    <3>1. e = C!Does(c, C!wlwpakey(x.id), "end")
      BY <2>1, <2>4 DEF C!WpaKey
    <3>2. C!wlwpakey(x.id) = <<>> \/ \E v : C!wlwpakey(x.id) = <<<<"wsec_key", v>>>>
      BY DEF C!wlwpakey
    <3> HIDE DEF c
    <3>3. Keeps(e)
      BY <2>0, <3>1, <3>2, KeepFacts
    <3>4. e.then # "refused"
      BY <3>1, DoesFacts
    <3> QED
      BY <1>7, <3>3, <3>4
  <2> QED
    BY <2>2, <2>3, <2>4
<1>8. CASE x.op = "escan"
  <2>1. e = C!Escan(x)
    BY <1>8 DEF C!Effect
  <2>2. e = C!Does([ctl EXCEPT !.scansecs = x.secs], <<>>, "end")
    BY <2>1 DEF C!Escan
  <2>3. /\ DOMAIN [ctl EXCEPT !.scansecs = x.secs] = CtlFields
        /\ [ctl EXCEPT !.scansecs = x.secs].crypt = ctl.crypt
    BY CtlChanges
  <2>4. Keeps(e)
    BY <2>2, <2>3, KeepFacts
  <2>5. e.then # "refused"
    BY <2>2, DoesFacts
  <2> QED
    BY <1>8, <2>4, <2>5
<1>9. CASE x.op = "country"
  <2>1. e = C!Country(x)
    BY <1>9 DEF C!Effect
  <2>2. e = C!Does(ctl, <<>>, "end") \/ e = C!Does(ctl, <<<<"country", 1>>>>, "end")
    BY <2>1 DEF C!Country
  <2>3. Keeps(e) /\ e.then # "refused"
    BY <2>2, KeepFacts, DoesFacts
  <2> QED
    BY <1>9, <2>3
<1>10. CASE x.op \notin {"auth", "channel", "crypt", "essid", "join", "wepkey", "wpakey",
                         "escan", "country"}
  <2>1. e = C!Does(ctl, <<>>, "end")
    BY <1>10 DEF C!Effect
  <2>2. Keeps(e) /\ e.then # "refused"
    BY <2>1, KeepFacts, DoesFacts
  <2> QED
    BY <1>10, <2>2
<1> QED
  BY <1>1, <1>2, <1>3, <1>4, <1>5, <1>6, <1>7, <1>8, <1>9, <1>10

FwFields == {"auth", "wsec", "wpa_auth", "wpaie", "up", "wsec_key", "joined"}

\* What the driver believes and what the firmware holds, or will hold when
\* the settings of the command have been sent.
Security ==
    /\ DOMAIN ctl = CtlFields /\ DOMAIN fw = FwFields /\ IsList(todo)
    /\ pc = "send" => WillAgree(ctl.crypt, todo, fw, note.wep, note.bad)
    /\ pc # "send" => Agrees(ctl.crypt, fw["auth"], fw["wsec"], fw["wpa_auth"], note.wep, note.bad)

\* The last join took over the settings of the firmware.
JoinTaken == pc = "joining" => LET j == fw.joined[1]
                               IN  /\ j.crypt = ctl.crypt /\ j.auth = fw["auth"]
                                   /\ j.wsec = fw["wsec"] /\ j.wpa_auth = fw["wpa_auth"]

\* Settings that are unchanged when the list is empty agree.
LEMMA SentAgrees ==
  ASSUME NEW c, NEW f, NEW wep, NEW bad, WillAgree(c, <<>>, f, wep, bad)
  PROVE  Agrees(c, f["auth"], f["wsec"], f["wpa_auth"], wep, bad)
<1>1. PICK a, w, p : /\ Ends("auth", a, <<>>, f) /\ Ends("wsec", w, <<>>, f)
                     /\ Ends("wpa_auth", p, <<>>, f) /\ Agrees(c, a, w, p, wep, bad)
  BY DEF WillAgree
<1>2. ASSUME NEW k, NEW v, Ends(k, v, <<>>, f) PROVE v = f[k]
  BY <1>2 DEF Ends
<1>3. a = f["auth"] /\ w = f["wsec"] /\ p = f["wpa_auth"]
  BY <1>1, <1>2
<1> QED
  BY <1>1, <1>3

\* A command that is accepted leaves settings on their way that agree.
LEMMA CommandAgrees ==
  ASSUME Security, C!Command, pc = "ready"
  PROVE  Security' /\ JoinTaken' /\ C!RefusedChangesNothing'
<1>0. /\ DOMAIN ctl = CtlFields /\ DOMAIN fw = FwFields
      /\ Agrees(ctl.crypt, fw["auth"], fw["wsec"], fw["wpa_auth"], note.wep, note.bad)
  BY DEF Security
<1>1. PICK x \in Commands :
        LET e == C!Effect(x)
        IN  /\ ctl' = e.ctl /\ todo' = e.sends
            /\ pc' = IF e.then = "refused" THEN "refused" ELSE "send"
            /\ note' = [before |-> [fw |-> fw, crypt |-> ctl.crypt, chan |-> ctl.chan],
                        wep |-> IF e.then = "refused" THEN note.wep
                                ELSE x.op = "wepkey" \/ (note.wep /\ C!Element(x) \in {"none", "off", "wep"}),
                        bad |-> IF e.then = "refused" \/ (C!Element(x) = "none" /\ x.op # "crypt") THEN note.bad
                                ELSE C!Element(x) \notin {"none", "off", "wep", "30", "dd"}]
  BY DEF C!Command
<1>2. fw' = fw
  BY DEF C!Command
<1> DEFINE e == C!Effect(x)
<1>3. /\ ctl' = e.ctl /\ todo' = e.sends
      /\ pc' = IF e.then = "refused" THEN "refused" ELSE "send"
      /\ note'.before = [fw |-> fw, crypt |-> ctl.crypt, chan |-> ctl.chan]
  BY <1>1
<1>4. e.then = "refused" => note'.wep = note.wep /\ note'.bad = note.bad
  BY <1>1
<1>5. e.then # "refused" =>
        /\ note'.wep = (x.op = "wepkey" \/ (note.wep /\ C!Element(x) \in {"none", "off", "wep"}))
        /\ note'.bad = IF C!Element(x) = "none" /\ x.op # "crypt" THEN note.bad
                       ELSE C!Element(x) \notin {"none", "off", "wep", "30", "dd"}
  BY <1>1
<1>6. x.op \notin {"auth", "join"} => C!Element(x) = "none"
  BY DEF C!Element
<1> HIDE DEF e
<1>7. CASE e.then = "refused" /\ Untouched(e)
  <2>1. Security'
    BY <1>0, <1>2, <1>3, <1>4, <1>7 DEF Security, Untouched
  <2>2. JoinTaken'
    BY <1>3, <1>7 DEF JoinTaken
  <2>3. C!RefusedChangesNothing'
    BY <1>2, <1>3, <1>7 DEF Untouched, C!RefusedChangesNothing
  <2> QED
    BY <2>1, <2>2, <2>3
<1>8. CASE e.then # "refused"
  <2>0. pc' = "send" /\ JoinTaken' /\ C!RefusedChangesNothing'
    BY <1>3, <1>8 DEF JoinTaken, C!RefusedChangesNothing
  <2> SUFFICES /\ DOMAIN e.ctl = CtlFields /\ IsList(e.sends)
               /\ \E a, w, p : /\ Ends("auth", a, e.sends, fw) /\ Ends("wsec", w, e.sends, fw)
                               /\ Ends("wpa_auth", p, e.sends, fw)
                               /\ Agrees(e.ctl.crypt, a, w, p, note'.wep, note'.bad)
    BY <1>0, <1>2, <1>3, <2>0 DEF Security, WillAgree
  <2>1. CASE Keeps(e) /\ x.op \notin {"auth", "join", "crypt"}
    <3>1. Agrees(ctl.crypt, fw["auth"], fw["wsec"], fw["wpa_auth"], note'.wep, note'.bad)
      BY <1>0, <1>5, <1>6, <1>8, <2>1 DEF Agrees
    <3> QED
      BY <2>1, <3>1 DEF Keeps
  <2>2. CASE Chooses(e) /\ x.op \in {"crypt", "join"}
    <3>1. Agrees(e.ctl.crypt, e.ctl.crypt, fw["wsec"], fw["wpa_auth"], note'.wep, note'.bad)
      BY <2>2 DEF Agrees, Chooses
    <3> QED
      BY <2>2, <3>1 DEF Chooses
  <2>3. CASE /\ x.op \in {"auth", "join"} /\ Carries(e, C!Element(x))
             /\ C!Element(x) \notin {"none", "off", "wep"}
    <3>1. Agrees(e.ctl.crypt, 0, IF e.ctl.crypt = 1 THEN 2 ELSE 4,
                 IF e.ctl.crypt = 1 THEN 4 ELSE 128, note'.wep, note'.bad)
      <4>1. e.ctl.crypt \in {0, 2} => C!Element(x) \notin {"dd", "30"}
        BY <2>3 DEF Carries
      <4>2. C!Element(x) \notin {"dd", "30"} => note'.bad
        <5>1. C!Element(x) \notin {"dd", "30"} => note'.bad = TRUE
          BY <1>5, <1>8, <2>3
        <5> QED
          BY <5>1
      <4> QED
        BY <4>1, <4>2 DEF Agrees
    <3> QED
      BY <2>3, <3>1 DEF Carries
  <2>4. CASE /\ x.op = "wepkey" /\ IsList(e.sends)
             /\ DOMAIN e.ctl = CtlFields /\ e.ctl.crypt = ctl.crypt
             /\ Ends("auth", fw["auth"], e.sends, fw) /\ Ends("wsec", 1, e.sends, fw)
             /\ Ends("wpa_auth", fw["wpa_auth"], e.sends, fw)
    <3>1. Agrees(e.ctl.crypt, fw["auth"], 1, fw["wpa_auth"], note'.wep, note'.bad)
      BY <1>0, <1>5, <1>6, <1>8, <2>4 DEF Agrees
    <3> QED
      BY <2>4, <3>1
  <2> QED
    BY <1>0, <1>8, <2>1, <2>2, <2>3, <2>4, EffectCases DEF e
<1> QED
  BY <1>0, <1>7, <1>8, EffectCases DEF e

\* A step of the control task or of lproc keeps what the settings will be.
LEMMA ControlStep ==
  ASSUME Security, JoinTaken, C!RefusedChangesNothing, C!Next
  PROVE  Security' /\ JoinTaken' /\ C!RefusedChangesNothing'
<1>0. DOMAIN ctl = CtlFields /\ DOMAIN fw = FwFields /\ IsList(todo)
  BY DEF Security
<1>1. CASE C!Command
  <2>1. pc = "ready"
    BY <1>1 DEF C!Command
  <2> QED
    BY <1>1, <2>1, CommandAgrees
<1>2. CASE C!Send
  <2>1. /\ pc = "send" /\ pc' = pc /\ todo # <<>> /\ todo' = Tail(todo)
        /\ UNCHANGED <<ctl, note>>
        /\ fw' = IF Head(todo)[1] \in DOMAIN fw
                 THEN [fw EXCEPT ![Head(todo)[1]] = Head(todo)[2]] ELSE fw
    BY <1>2 DEF C!Send
  <2>2. PICK a, w, p : /\ Ends("auth", a, todo, fw) /\ Ends("wsec", w, todo, fw)
                       /\ Ends("wpa_auth", p, todo, fw)
                       /\ Agrees(ctl.crypt, a, w, p, note.wep, note.bad)
    BY <2>1 DEF Security, WillAgree
  <2>3. ASSUME NEW k \in {"auth", "wsec", "wpa_auth"}, NEW v, Ends(k, v, todo, fw)
        PROVE  IsList(todo') /\ Ends(k, v, todo', fw')
    <3>1. k \in DOMAIN fw
      BY <1>0 DEF FwFields
    <3> QED
      BY <1>0, <2>1, <2>3, <3>1, SendEnds
  <2>4. IsList(todo') /\ WillAgree(ctl.crypt, todo', fw', note.wep, note.bad)
    BY <2>2, <2>3 DEF WillAgree
  <2>5. DOMAIN fw' = FwFields
    BY <1>0, <2>1
  <2> QED
    BY <1>0, <2>1, <2>4, <2>5 DEF Security, JoinTaken, C!RefusedChangesNothing
<1>3. CASE C!SendJoin
  <2>1. /\ pc = "send" /\ todo = <<>> /\ todo' = todo /\ pc' = "joining" /\ note' = note
        /\ fw' = [fw EXCEPT !.joined = <<[essid |-> ctl.essid, crypt |-> ctl.crypt, auth |-> fw.auth,
                                          wsec |-> fw.wsec, wpa_auth |-> fw.wpa_auth]>>]
        /\ ctl' = [ctl EXCEPT !.status = "connecting"]
    BY <1>3 DEF C!SendJoin
  <2>2. Agrees(ctl.crypt, fw["auth"], fw["wsec"], fw["wpa_auth"], note.wep, note.bad)
    BY <2>1, SentAgrees DEF Security
  <2>3. DOMAIN ctl' = CtlFields /\ ctl'.crypt = ctl.crypt
    BY <1>0, <2>1, CtlChanges
  <2>4. /\ DOMAIN fw' = FwFields /\ fw'["auth"] = fw["auth"] /\ fw'["wsec"] = fw["wsec"]
        /\ fw'["wpa_auth"] = fw["wpa_auth"]
    BY <1>0, <2>1 DEF FwFields
  <2>5. fw'.joined = <<[essid |-> ctl.essid, crypt |-> ctl.crypt, auth |-> fw.auth,
                        wsec |-> fw.wsec, wpa_auth |-> fw.wpa_auth]>>
    BY <1>0, <2>1 DEF FwFields
  <2>6. JoinTaken'
    BY <2>3, <2>4, <2>5 DEF JoinTaken
  <2>7. Security'
    BY <1>0, <2>1, <2>2, <2>3, <2>4 DEF Security
  <2> QED
    BY <2>1, <2>6, <2>7 DEF C!RefusedChangesNothing
<1>4. CASE C!Joined
  <2>1. /\ pc = "joining" /\ pc' = "ready" /\ UNCHANGED <<todo, fw, note>>
        /\ \E s : ctl' = [ctl EXCEPT !.status = s]
    BY <1>4 DEF C!Joined
  <2>2. DOMAIN ctl' = CtlFields /\ ctl'.crypt = ctl.crypt
    BY <1>0, <2>1, CtlChanges
  <2> QED
    BY <1>0, <2>1, <2>2 DEF Security, JoinTaken, C!RefusedChangesNothing
<1>5. CASE C!Finish
  <2>1. pc = "send" /\ todo = <<>> /\ pc' = "ready" /\ UNCHANGED <<todo, ctl, fw, note>>
    BY <1>5 DEF C!Finish
  <2>2. Agrees(ctl.crypt, fw["auth"], fw["wsec"], fw["wpa_auth"], note.wep, note.bad)
    BY <2>1, SentAgrees DEF Security
  <2> QED
    BY <1>0, <2>1, <2>2 DEF Security, JoinTaken, C!RefusedChangesNothing
<1>6. CASE C!Return
  <2>1. pc = "refused" /\ pc' = "ready" /\ UNCHANGED <<todo, ctl, fw, note>>
    BY <1>6 DEF C!Return
  <2> QED
    BY <1>0, <2>1 DEF Security, JoinTaken, C!RefusedChangesNothing
<1>7. CASE C!Lproc
  <2>1. UNCHANGED <<pc, todo, ctl, fw, note>>
    BY <1>7 DEF C!Lproc, C!Tick, C!Passive, C!Scan
  <2> QED
    BY <2>1 DEF Security, JoinTaken, C!RefusedChangesNothing
<1> QED
  BY <1>1, <1>2, <1>3, <1>4, <1>5, <1>6, <1>7 DEF C!Next, C!Control

\* wlinit's settings are none of security.
LEMMA InitAgrees ==
  ASSUME C!Init
  PROVE  Security /\ JoinTaken /\ C!RefusedChangesNothing
<1>1. pc = "send"
  BY Zenon DEF C!Init
<1>c. ctl.crypt = 0 /\ DOMAIN ctl = CtlFields
  <2>1. ctl = [essid |-> "", chan |-> 0, crypt |-> 0, key |-> "none", scansecs |-> 0,
               status |-> "disconnected"]
    BY Zenon DEF C!Init
  <2> QED
    BY <2>1 DEF CtlFields
<1>f. DOMAIN fw = FwFields /\ fw["auth"] = 0 /\ fw["wsec"] = 0 /\ fw["wpa_auth"] = 0
  <2>1. fw = [auth |-> 0, wsec |-> 0, wpa_auth |-> 0, wpaie |-> "none", up |-> 0,
              wsec_key |-> [n |-> "none", algo |-> "none"], joined |-> <<>>]
    BY Zenon DEF C!Init
  <2> QED
    BY <2>1 DEF FwFields
<1>2. PICK id \in ControlChips : todo = C!InitSettings(id)
  BY Zenon DEF C!Init
<1> DEFINE Names == {"assoc_listen", "powersave", "bus:txglom", "bcn_timeout", "assoc_retry_max",
                     "btc_wire", "btc_mode", "mkeep_alive", "event_msgs", "scan_times", "up",
                     "roam_off", "infra", "promisc"}
           S == Names \X Int
           first == <<<<"assoc_listen", 10>>, <<"powersave", IF C!StaysAwake(id) THEN 0 ELSE 2>>,
                      <<"bus:txglom", 0>>, <<"bcn_timeout", 10>>, <<"assoc_retry_max", 3>>>>
           extra == <<<<"btc_wire", 4>>, <<"btc_mode", 1>>, <<"mkeep_alive", 1>>>>
           second == IF C!SharesAntenna(id) THEN extra ELSE <<>>
           third == <<<<"event_msgs", 1>>, <<"scan_times", 40>>, <<"up", 0>>, <<"roam_off", 1>>,
                      <<"infra", 1>>, <<"promisc", 0>>, <<"up", 1>>>>
<1>3. todo = (first \o second) \o third
  BY <1>2, Zenon DEF C!InitSettings
<1>4. first \in Seq(S) /\ extra \in Seq(S) /\ <<>> \in Seq(S) /\ third \in Seq(S)
  <2>1. first \in Seq(S)
    OBVIOUS
  <2>2. extra \in Seq(S)
    OBVIOUS
  <2>3. third \in Seq(S)
    OBVIOUS
  <2>4. <<>> \in Seq(S)
    OBVIOUS
  <2> QED
    BY <2>1, <2>2, <2>3, <2>4, Zenon
<1>5. \A s \in S : s[1] \notin {"auth", "wsec", "wpa_auth"}
  <2>1. \A s \in S : s[1] \in Names
    BY DEF S
  <2>2. \A k \in Names : k \notin {"auth", "wsec", "wpa_auth"}
    OBVIOUS
  <2> QED
    BY <2>1, <2>2, Zenon
<1> HIDE DEF S, first, extra, third
<1>6. todo \in Seq(S)
  <2>1. second \in Seq(S)
    BY <1>4
  <2> HIDE DEF second
  <2> QED
    BY <1>3, <1>4, <2>1
<1>7. \A k \in {"auth", "wsec", "wpa_auth"} : Ends(k, fw[k], todo, fw)
  BY <1>5, <1>6 DEF Ends
<1>8. Agrees(0, 0, 0, 0, note.wep, note.bad)
  BY DEF Agrees
<1>9. WillAgree(ctl.crypt, todo, fw, note.wep, note.bad)
  BY <1>c, <1>f, <1>7, <1>8 DEF WillAgree
<1> QED
  BY <1>1, <1>c, <1>f, <1>6, <1>9 DEF Security, JoinTaken, C!RefusedChangesNothing, IsList

\* In every state of the configuration of the firmware: a join is made with
\* the security the driver believes in, and a refused command has changed no
\* setting.
THEOREM ControlIsConsistent == BootSpec => []ControlConsistent
<1> DEFINE ControlInv == unit = "control" => Security /\ JoinTaken /\ C!RefusedChangesNothing
<1>1. BootInit => ControlInv
  BY InitAgrees DEF BootInit
<1>2. ControlInv /\ [BootNext]_all => ControlInv'
  <2> SUFFICES ASSUME ControlInv, [BootNext]_all, unit' = "control"
               PROVE  Security' /\ JoinTaken' /\ C!RefusedChangesNothing'
    OBVIOUS
  <2>1. CASE ControlOnly(C!Next)
    BY <2>1, ControlStep DEF ControlOnly
  <2>2. CASE ChipOnly(B!Next) \/ LoadOnly(Load)
    BY <2>2 DEF ChipOnly, LoadOnly
  <2>3. CASE UNCHANGED all
    <3>1. UNCHANGED <<unit, pc, todo, ctl, fw, note>>
      BY <2>3 DEF all, controlOnly
    <3> QED
      BY <3>1 DEF Security, JoinTaken, C!RefusedChangesNothing
  <2> QED
    BY <2>1, <2>2, <2>3 DEF BootNext
<1>3. ControlInv => ControlConsistent
  <2> SUFFICES ASSUME Security, JoinTaken, C!RefusedChangesNothing
               PROVE  C!SecurityAgrees /\ C!RefusedChangesNothing
    BY DEF ControlConsistent
  <2>1. pc = "joining" => /\ JoinTaken
                          /\ Agrees(ctl.crypt, fw["auth"], fw["wsec"], fw["wpa_auth"], note.wep, note.bad)
    BY DEF Security
  <2>2. C!SecurityAgrees
    BY <2>1 DEF JoinTaken, Agrees, C!SecurityAgrees, C!Wpa, C!Wpa2, C!Wep
  <2> QED
    BY <2>2
<1> QED
  BY <1>1, <1>2, <1>3, PTL DEF BootSpec

-----------------------------------------------------------------------------
(* FirmwareLoad.                                                           *)

Phases == {"zero", "fw", "fwcmp", "cfg", "cfgcmp", "token", "done"}
Firm == {"fw", "fwcmp"}
Conf == {"cfg", "cfgcmp"}
Ends4 == {"zero", "token"}

LoadType ==
    /\ phase \in Phases /\ pc \in {"next", "window", "rounds", "moved"}
    /\ ram \in [Addresses -> Int] /\ window \in Addresses /\ window % Sbwsize = 0
    /\ buf \in Seq(Nat) /\ cbuf \in [1 .. Uploadsz -> Int]
    /\ off \in Nat /\ n \in Nat /\ so \in Nat /\ sp \in Nat /\ sl \in Nat /\ sn \in Nat /\ ro \in Nat /\ rl \in Nat
    /\ found \in BOOLEAN /\ running \in BOOLEAN /\ fwRet \in {-1, 0} /\ cfgRet \in Int /\ cfgRet >= -1
    /\ faults \in Nat /\ failed \in SUBSET Phases

\* Where the transfer that is under way began, and what it moves.
From == IF phase \in Ends4 THEN RamSize - 4 ELSE off
LoadBuffer ==
    /\ Len(buf) <= Uploadsz /\ so + sl <= RamSize
    /\ pc # "next" /\ phase # "done" => /\ Len(buf) > 0 /\ Len(buf) % 4 = 0 /\ From % 4 = 0 /\ From + Len(buf) <= RamSize
    /\ phase \in Firm => off % 4 = 0 /\ off <= FwLen + 3
    /\ phase \in Firm /\ pc # "next" => buf = FwBlock(off) /\ off < FwLen /\ n = Len(buf)
    /\ phase \in Conf /\ pc # "next" => /\ config \in Configs /\ buf = condense(config) /\ n = Len(buf)
                                        /\ off = RamSize - 4 - n
    /\ phase = "zero" /\ pc # "next" => buf = <<0, 0, 0, 0>>
    /\ phase = "token" /\ pc # "next" => buf = TokenBytes(cfgRet)
    /\ phase \in {"token", "done"} /\ cfgRet > 0 => config \in Configs /\ cfgRet = Len(condense(config))
    /\ phase \notin {"token", "done"} => cfgRet = 0
    /\ phase = "cfgcmp" => pc # "next"
    /\ phase = "zero" => off = 0

\* Where the transfer is: a part of a window ends with it or with the data.
LoadPlace ==
    /\ pc \in {"window", "rounds"} => /\ phase # "done" /\ sl > 0 /\ sp + sl = Len(buf) /\ so = From + sp /\ sp % 4 = 0
    /\ pc = "window" => sn = FirstPart(so)
    /\ pc = "rounds" => /\ ro = so % Sbwsize /\ rl > 0 /\ rl % 4 = 0 /\ rl <= sl
                        /\ ro + rl <= Sbwsize /\ (rl < sl => ro + rl = Sbwsize)
    /\ pc = "moved" => sl = 0 /\ sp = Len(buf) /\ (phase # "done" => so = From + sp)

\* At most one access has failed, in at most one phase.
LoadFaults == /\ faults = 0 => failed = {}
              /\ faults = 1 => \A p, q \in failed : p = q
RightWindow == window = so - (so % Sbwsize)
LoadWindow == pc = "rounds" /\ phase \notin failed => RightWindow

\* What the RAM ought to hold, how far it has been written, and what was read back.
FwByte(a) == IF a < FwLen THEN a + 1 ELSE 0
Come == IF pc = "next" THEN off ELSE off + sp
Unwritten(a) == \A b \in Addresses : a <= b /\ b < RamSize - 4 => ram[b] = Old
Cleared == "zero" \notin failed /\ "fw" \notin failed
FwThere == \A a \in Addresses : a < FwLen => ram[a] = a + 1
CfgThere(k) == \A a \in Addresses : off <= a /\ a < off + k => ram[a] = buf[a - off + 1]

LoadFirmware ==
    /\ phase = "zero" /\ "zero" \notin failed => Unwritten(0)
    /\ phase = "fw" /\ "fw" \notin failed => \A a \in Addresses : a < Come => ram[a] = FwByte(a)
    /\ phase = "fw" /\ Cleared => Unwritten(Come)
    /\ phase = "fwcmp" /\ "fw" \notin failed => FwThere
    /\ phase = "fwcmp" /\ "fwcmp" \notin failed => \A a \in Addresses : a < off /\ a < FwLen => ram[a] = a + 1
    /\ phase = "fwcmp" /\ Cleared => Unwritten(FwLen + 3)
    /\ phase = "cfg" /\ pc = "next" /\ Cleared => Unwritten(FwLen + 3)
    /\ phase = "cfg" /\ pc = "next" /\ fwRet = 0 /\ faults <= 1 => FwThere

\* cbuf holds what was read.
LoadRead == phase \in {"fwcmp", "cfgcmp"} /\ phase \notin failed /\ pc # "next" =>
    \A k \in 1 .. sp : cbuf[k] = ram[off + k - 1]

\* The configuration is on its way as it should be; or it is about to be written
\* to another window; or a byte of it is missing for good.
Sound == FwThere /\ CfgThere(sp) /\ (Cleared => Unwritten(so))
Missing == "cfg" \in failed /\ \E a \in Addresses :
    /\ off <= a /\ a < so /\ ram[a] = Old
    /\ pc = "rounds" => RightWindow \/ a - (a % Sbwsize) = so - (so % Sbwsize)
LoadConfig ==
    /\ phase = "cfg" /\ pc # "next" /\ fwRet = 0 /\ faults <= 1 =>
         \/ Sound /\ (pc = "rounds" => RightWindow \/ "cfg" \in failed)
         \/ Missing
    /\ phase = "cfgcmp" /\ fwRet = 0 /\ faults <= 1 =>
         \/ FwThere /\ CfgThere(n)
         \/ "cfg" \in failed /\ \E a \in Addresses : off <= a /\ a < off + n /\ ram[a] = Old
    /\ phase \in {"token", "done"} /\ fwRet = 0 /\ cfgRet > 0 /\ faults <= 1 /\ "token" \notin failed =>
         /\ FwThere
         /\ \A a \in Addresses : RamSize - 4 - cfgRet <= a /\ a < RamSize - 4 =>
              ram[a] = condense(config)[a - (RamSize - 4 - cfgRet) + 1]
LoadToken ==
    /\ phase = "token" /\ "token" \notin failed /\ pc # "next" =>
         \A a \in Addresses : RamSize - 4 <= a /\ a < RamSize - 4 + sp => ram[a] = TokenBytes(cfgRet)[1]
    /\ phase = "done" /\ "token" \notin failed =>
         \A a \in Addresses : RamSize - 4 <= a => ram[a] = TokenBytes(cfgRet)[1]
    /\ running => phase = "done"

LoadIInv == /\ LoadType /\ LoadBuffer /\ LoadPlace /\ LoadFaults /\ LoadWindow /\ LoadFirmware /\ LoadRead
            /\ LoadConfig /\ LoadToken

\* Remainders.
LEMMA Rem == ASSUME NEW w \in Nat \ {0}, NEW x \in Nat
             PROVE  x % w \in Nat /\ x % w < w /\ x % w <= x
OBVIOUS

LEMMA RemOf ==
    ASSUME NEW w \in Nat \ {0}, NEW x \in Nat
    PROVE  \E q \in Nat : x = q * w + (x % w) /\ x - (x % w) = q * w
<1>1. x = (x \div w) * w + (x % w) /\ x \div w \in Nat OBVIOUS
<1>2. PICK q \in Nat : q = x \div w BY <1>1
<1>3. x = q * w + (x % w) BY <1>1, <1>2
<1>4. PICK p \in Nat : p = q * w BY <1>2
<1>5. x - (x % w) = p BY <1>3, <1>4, Rem
<1> QED BY <1>3, <1>4, <1>5

LEMMA RemMultiple == ASSUME NEW w \in Nat \ {0}, NEW q \in Nat PROVE (q * w) % w = 0 /\ q * w \in Nat
OBVIOUS
LEMMA RemRest == ASSUME NEW w \in Nat \ {0}, NEW q \in Nat, NEW r \in Nat, r < w PROVE (q * w + r) % w = r
OBVIOUS
LEMMA MultipleAbove ==
    ASSUME NEW w \in Nat \ {0}, NEW p \in Nat, NEW q \in Nat, p < q PROVE p * w + w <= q * w
OBVIOUS
LEMMA RemSmall == ASSUME NEW w \in Nat \ {0}, NEW x \in Nat, x < w PROVE x % w = x
OBVIOUS

\* Where x lies in its window, and so does what follows inside it.
LEMMA InWindow ==
    ASSUME NEW w \in Nat \ {0}, NEW x \in Nat
    PROVE  /\ x - (x % w) \in Nat /\ (x - (x % w)) % w = 0
           /\ \A k \in Nat : (x % w) + k < w => (x + k) % w = (x % w) + k
           /\ \A k \in Nat : (x % w) + k = w => (x + k) % w = 0
<1>1. PICK q \in Nat : x = q * w + (x % w) /\ x - (x % w) = q * w BY RemOf
<1>2. PICK r \in Nat : r = x % w BY Rem
<1>3. PICK p \in Nat : p = q * w BY RemMultiple
<1>4. p % w = 0 /\ x = p + r BY <1>1, <1>2, <1>3, RemMultiple
<1>5. x - (x % w) \in Nat /\ (x - (x % w)) % w = 0 BY <1>1, <1>3, <1>4
<1>6. ASSUME NEW k \in Nat, r + k < w PROVE (x + k) % w = r + k
  <2>1. (q * w + (r + k)) % w = r + k BY <1>6, RemRest
  <2>2. x + k = p + (r + k) BY <1>4
  <2> QED BY <1>3, <2>1, <2>2
<1>7. ASSUME NEW k \in Nat, r + k = w PROVE (x + k) % w = 0
  <2>1. ((q + 1) * w) % w = 0 BY RemMultiple
  <2>2. (q + 1) * w = q * w + w BY SMT
  <2>3. x + k = p + w BY <1>4, <1>7
  <2> QED BY <1>3, <2>1, <2>2, <2>3
<1> QED BY <1>2, <1>5, <1>6, <1>7

\* Two windows that are not the same have nothing in common.
LEMMA OtherWindow ==
    ASSUME NEW w \in Nat \ {0}, NEW x \in Nat, NEW y \in Nat, x % w = 0, y % w = 0, x # y
    PROVE  x + w <= y \/ y + w <= x
<1>1. PICK p \in Nat : x = p * w + (x % w) BY RemOf
<1>2. PICK q \in Nat : y = q * w + (y % w) BY RemOf
<1>3. x = p * w /\ y = q * w
  <2>1. p * w \in Nat /\ q * w \in Nat BY RemMultiple
  <2> QED BY <1>1, <1>2, <2>1
<1>4. p # q BY <1>3
<1>5. p < q \/ q < p BY <1>4
<1> QED BY <1>3, <1>5, MultipleAbove

\* Words.
LEMMA Fours ==
    ASSUME NEW x \in Nat, NEW y \in Nat, x % 4 = 0, y % 4 = 0
    PROVE  (x + y) % 4 = 0 /\ (x >= y => (x - y) % 4 = 0)
OBVIOUS

LEMMA FourTimes == ASSUME NEW x \in Nat, x % 4 = 0, NEW q \in Nat PROVE q * x \in Nat /\ (q * x) % 4 = 0
<1>1. PICK v \in Nat : x = 4 * v
  <2>1. x = 4 * (x \div 4) /\ x \div 4 \in Nat OBVIOUS
  <2> QED BY <2>1
<1>2. PICK r \in Nat : r = q * v OBVIOUS
<1>3. q * (4 * v) = 4 * r BY <1>2, SMT
<1>4. (4 * r) % 4 = 0 /\ 4 * r \in Nat OBVIOUS
<1> QED BY <1>1, <1>3, <1>4

LEMMA FourRem ==
    ASSUME NEW w \in Nat \ {0}, w % 4 = 0, NEW x \in Nat, x % 4 = 0 PROVE (x % w) % 4 = 0
<1>1. PICK q \in Nat : x = q * w + (x % w) BY RemOf
<1>2. PICK p \in Nat : p = q * w /\ p % 4 = 0 BY FourTimes
<1>3. PICK r \in Nat : r = x % w BY Rem
<1>4. x = p + r BY <1>1, <1>2, <1>3
<1>5. r = x - p /\ x >= p BY <1>4
<1>6. (x - p) % 4 = 0 BY <1>2, <1>5, Fours
<1> QED BY <1>3, <1>5, <1>6

LEMMA MinTwo ==
    ASSUME NEW x \in Nat, NEW y \in Nat
    PROVE  Min({x, y}) = IF x <= y THEN x ELSE y
<1>1. CASE x <= y
  <2>1. \A z : (z \in {x, y} /\ \A v \in {x, y} : z <= v) <=> z = x BY <1>1
  <2>2. (CHOOSE z \in {x, y} : \A v \in {x, y} : z <= v) = x BY <2>1
  <2> QED BY <1>1, <2>2 DEF Min
<1>2. CASE ~(x <= y)
  <2>1. \A z : (z \in {x, y} /\ \A v \in {x, y} : z <= v) <=> z = y BY <1>2
  <2>2. (CHOOSE z \in {x, y} : \A v \in {x, y} : z <= v) = y BY <2>1
  <2> QED BY <1>2, <2>2 DEF Min
<1> QED BY <1>1, <1>2

LEMMA LoadSizes ==
    /\ Sbwsize \in Nat \ {0} /\ Sbwsize % 4 = 0 /\ Bsize \in Nat \ {0} /\ Bsize % 4 = 0
    /\ Uploadsz \in Nat \ {0} /\ Uploadsz % 4 = 0 /\ RamSize \in Nat \ {0} /\ RamSize % 4 = 0
    /\ RamSize % Sbwsize = 0 /\ MaxBlocks \in Nat \ {0} /\ FwLen \in Nat \ {0} /\ MaxFaults \in Nat
    /\ MaxConfig \in Nat /\ MaxConfig >= 1 /\ MaxConfig + 5 <= Uploadsz /\ FwLen + MaxConfig + 12 <= RamSize
<1>1. \A c \in {Sbwsize, Bsize, Uploadsz, RamSize} : c \in Nat \ {0} /\ c % 4 = 0 BY LoadConstants
<1>2. /\ Sbwsize \in Nat \ {0} /\ Sbwsize % 4 = 0 /\ Bsize \in Nat \ {0} /\ Bsize % 4 = 0
      /\ Uploadsz \in Nat \ {0} /\ Uploadsz % 4 = 0 /\ RamSize \in Nat \ {0} /\ RamSize % 4 = 0
  BY <1>1
<1>3. MaxConfig \in Nat /\ MaxConfig >= 1 /\ MaxConfig + 5 <= Uploadsz
  <2>1. MaxConfig \in 1 .. (Uploadsz - 5) BY LoadConstants
  <2> QED BY <1>2, <2>1
<1> QED BY <1>2, <1>3, LoadConstants

\* The next round of sdiorwext: whole words, and not more than is left.
LEMMA RoundWords ==
    ASSUME NEW len \in Nat, len > 0, len % 4 = 0
    PROVE  RoundBytes(len) \in Nat /\ RoundBytes(len) > 0 /\ RoundBytes(len) <= len /\ RoundBytes(len) % 4 = 0
<1>1. PICK bs \in Nat \ {0} : bs = Bsize /\ bs % 4 = 0 BY LoadSizes
<1>2. PICK mb \in Nat \ {0} : mb = MaxBlocks BY LoadSizes
<1>3. PICK most \in Nat : most = mb * bs /\ most % 4 = 0 /\ most > 0
  <2>1. mb * bs \in Nat /\ (mb * bs) % 4 = 0 BY <1>1, FourTimes
  <2>2. mb * bs > 0 BY SMT
  <2> QED BY <2>1, <2>2
<1>4. CASE len >= most
  <2>1. RoundBytes(len) = most BY <1>1, <1>2, <1>3, <1>4 DEF RoundBytes
  <2> QED BY <1>3, <1>4, <2>1
<1>5. CASE len < most /\ len > bs
  <2>1. PICK q \in Nat : q = len \div bs BY SMT
  <2>2. len = q * bs + (len % bs) BY <2>1, SMT
  <2>3. PICK p \in Nat : p = q * bs /\ p % 4 = 0 BY <1>1, FourTimes
  <2>4. PICK r \in Nat : r = len % bs /\ r < bs BY Rem
  <2>5. p <= len /\ p > 0 BY <1>5, <2>2, <2>3, <2>4
  <2>6. RoundBytes(len) = p BY <1>1, <1>2, <1>3, <1>5, <2>1, <2>3 DEF RoundBytes
  <2> QED BY <2>3, <2>5, <2>6
<1>6. CASE len < most /\ ~(len > bs)
  <2>1. RoundBytes(len) = len BY <1>1, <1>2, <1>3, <1>6 DEF RoundBytes
  <2> QED BY <2>1
<1> QED BY <1>3, <1>4, <1>5, <1>6

LEMMA FcnIsSeq == ASSUME NEW S, NEW k \in Nat, NEW f \in [1 .. k -> S] PROVE f \in Seq(S) /\ Len(f) = k
OBVIOUS

LEMMA PaddedIs ==
    ASSUME NEW s \in Seq(Nat)
    PROVE  /\ Padded(s) \in Seq(Nat) /\ Len(Padded(s)) % 4 = 0
           /\ Len(Padded(s)) >= Len(s) /\ Len(Padded(s)) <= Len(s) + 3
           /\ \A k \in 1 .. Len(Padded(s)) : Padded(s)[k] = IF k <= Len(s) THEN s[k] ELSE 0
<1>1. PICK ls \in Nat : ls = Len(s) BY LenProperties
<1>2. PICK z \in 0 .. 3 : z = (4 - (ls % 4)) % 4 OBVIOUS
<1>3. (ls + z) % 4 = 0 BY <1>2
<1>4. PICK zs : zs = [k \in 1 .. z |-> 0] OBVIOUS
<1>5. zs \in Seq(Nat) /\ Len(zs) = z
  <2>1. zs \in [1 .. z -> Nat] /\ z \in Nat BY <1>2, <1>4
  <2> QED BY <2>1, FcnIsSeq
<1>6. Padded(s) = s \o zs BY <1>1, <1>2, <1>4 DEF Padded
<1>7. /\ s \o zs \in Seq(Nat) /\ Len(s \o zs) = ls + z
      /\ \A k \in 1 .. ls + z : (s \o zs)[k] = IF k <= ls THEN s[k] ELSE zs[k - ls]
  BY <1>1, <1>5, ConcatProperties
<1>8. ASSUME NEW k \in 1 .. ls + z, ~(k <= ls) PROVE zs[k - ls] = 0
  <2>1. k - ls \in 1 .. z BY <1>8
  <2> QED BY <1>4, <2>1
<1> QED BY <1>1, <1>2, <1>3, <1>6, <1>7, <1>8

\* A block of the firmware as it is to be in the RAM.
LEMMA FwBlockIs ==
    ASSUME NEW o \in Nat, o < FwLen
    PROVE  /\ FwBlock(o) \in Seq(Nat) /\ Len(FwBlock(o)) % 4 = 0 /\ Len(FwBlock(o)) > 0
           /\ Len(FwBlock(o)) <= Uploadsz /\ o + Len(FwBlock(o)) <= FwLen + 3
           /\ \A k \in 1 .. Len(FwBlock(o)) : FwBlock(o)[k] = FwByte(o + k - 1)
<1>1. PICK up \in Nat : up = Uploadsz /\ up % 4 = 0 /\ up > 0 BY LoadSizes
<1>2. PICK fl \in Nat : fl = FwLen BY LoadSizes
<1>3. PICK m \in Nat : m = Min({Uploadsz, FwLen - o}) /\ m = (IF up <= fl - o THEN up ELSE fl - o)
  <2>1. fl - o \in Nat BY <1>2
  <2> QED BY <1>1, <1>2, <2>1, MinTwo
<1>4. m > 0 /\ m <= up /\ m <= fl - o /\ (m = up \/ m = fl - o) BY <1>1, <1>2, <1>3
<1>5. PICK s : s = [k \in 1 .. m |-> o + k] OBVIOUS
<1>6. s \in Seq(Nat) /\ Len(s) = m
  <2>1. s \in [1 .. m -> Nat] BY <1>5
  <2> QED BY <2>1, FcnIsSeq
<1>7. FwBlock(o) = Padded(s) BY <1>3, <1>5 DEF FwBlock
<1>8. PICK lp \in Nat : lp = Len(Padded(s)) /\ lp % 4 = 0 /\ lp >= m /\ lp <= m + 3
  BY <1>6, PaddedIs, LenProperties
<1>9. lp <= up /\ lp > 0 /\ o + lp <= fl + 3
  <2>1. lp <= up BY <1>1, <1>4, <1>8
  <2> QED BY <1>2, <1>4, <1>8, <2>1
<1>10. ASSUME NEW k \in 1 .. lp PROVE Padded(s)[k] = FwByte(o + k - 1)
  <2>1. Padded(s)[k] = IF k <= m THEN s[k] ELSE 0 BY <1>6, <1>8, PaddedIs
  <2>2. CASE k <= m
    <3>1. s[k] = o + k /\ o + k - 1 < fl /\ (o + k - 1) + 1 = o + k BY <1>2, <1>4, <1>5, <2>2
    <3> QED BY <1>2, <2>1, <2>2, <3>1 DEF FwByte
  <2>3. CASE ~(k <= m)
    <3>1. m = fl - o BY <1>4, <1>8, <1>9, <2>3
    <3>2. ~(o + k - 1 < fl) BY <1>2, <2>3, <3>1
    <3> QED BY <1>2, <2>1, <2>3, <3>2 DEF FwByte
  <2> QED BY <2>2, <2>3
<1>11. Padded(s) \in Seq(Nat) BY <1>6, PaddedIs
<1> QED BY <1>1, <1>2, <1>7, <1>8, <1>9, <1>10, <1>11

-----------------------------------------------------------------------------
(* condense.                                                               *)

\* Induction up to a bound, from the order of the natural numbers.
LEMMA Upwards ==
    ASSUME NEW m \in Nat, NEW S, 0 \in S, \A k \in 0 .. m - 1 : k \in S => k + 1 \in S
    PROVE  \A k \in 0 .. m : k \in S
<1> DEFINE less == {p \in Nat \X Nat : p[1] < p[2]}
<1>1. IsWellFoundedOn(less, Nat) BY NatLessThanWellFounded DEF OpToRel
<1>2. SUFFICES ASSUME \E k \in 0 .. m : k \notin S PROVE FALSE OBVIOUS
<1>3. PICK bad : bad = {k \in 0 .. m : k \notin S} OBVIOUS
<1>4. bad \subseteq Nat /\ bad # {} BY <1>2, <1>3
<1> HIDE DEF less
<1>5. PICK b \in bad : \A k \in bad : ~(<<k, b>> \in less) BY <1>1, <1>4, WFMin
<1> USE DEF less
<1>6. b \in 0 .. m /\ b \notin S /\ b # 0 BY <1>3, <1>5
<1>7. b - 1 \in 0 .. m - 1 /\ b - 1 < b /\ (b - 1) + 1 = b BY <1>6
<1>8. CASE b - 1 \in S BY <1>6, <1>7, <1>8
<1>9. CASE b - 1 \notin S
  <2>1. b - 1 \in bad BY <1>3, <1>7, <1>9
  <2>2. <<b - 1, b>> \in less BY <1>6, <1>7
  <2> QED BY <1>5, <2>1, <2>2
<1> QED BY <1>8, <1>9

Texts == Seq({Char, NL, Hash, CR})
ScanStart == [out |-> <<>>, line |-> 0, skipping |-> FALSE]
ScansTo(c, m, f) == f = [k \in 0 .. m |-> IF k = 0 THEN ScanStart ELSE Scanned(c, k, f[k - 1])]

LEMMA ScanExists == ASSUME NEW c \in Texts PROVE \E f : ScansTo(c, Len(c), f)
<1>1. PICK L \in Nat : L = Len(c) BY LenProperties DEF Texts
<1>2. PICK S : S = {m \in Nat : \E f : ScansTo(c, m, f)} OBVIOUS
<1>3. 0 \in S
  <2>1. PICK f : f = [k \in 0 .. 0 |-> ScanStart] OBVIOUS
  <2>2. ScansTo(c, 0, f)
    <3>1. [k \in 0 .. 0 |-> IF k = 0 THEN ScanStart ELSE Scanned(c, k, f[k - 1])] = [k \in 0 .. 0 |-> ScanStart]
      OBVIOUS
    <3> QED BY <2>1, <3>1 DEF ScansTo
  <2> QED BY <1>2, <2>2
<1>4. ASSUME NEW m \in 0 .. L - 1, m \in S PROVE m + 1 \in S
  <2>1. PICK g : ScansTo(c, m, g) BY <1>2, <1>4
  <2>2. PICK f : f = [k \in 0 .. m + 1 |-> IF k <= m THEN g[k] ELSE Scanned(c, k, g[k - 1])] OBVIOUS
  <2>3. \A k \in 0 .. m : g[k] = IF k = 0 THEN ScanStart ELSE Scanned(c, k, g[k - 1])
    <3>1. PICK h : h = [k \in 0 .. m |-> IF k = 0 THEN ScanStart ELSE Scanned(c, k, g[k - 1])] OBVIOUS
    <3>2. \A k \in 0 .. m : h[k] = IF k = 0 THEN ScanStart ELSE Scanned(c, k, g[k - 1]) BY <3>1
    <3>3. g = h BY <2>1, <3>1 DEF ScansTo
    <3> QED BY <3>2, <3>3
  <2>4. ASSUME NEW k \in 0 .. m + 1 PROVE f[k] = IF k = 0 THEN ScanStart ELSE Scanned(c, k, f[k - 1])
    <3>1. CASE k = 0
      <4>1. f[0] = g[0] BY <1>1, <2>2
      <4>2. g[0] = ScanStart BY <2>3
      <4> QED BY <3>1, <4>1, <4>2
    <3>2. CASE k # 0 /\ k <= m
      <4>1. k - 1 \in 0 .. m + 1 /\ k - 1 <= m /\ k \in 0 .. m BY <3>2
      <4>2. f[k] = g[k] /\ f[k - 1] = g[k - 1] BY <2>2, <3>2, <4>1
      <4> QED BY <2>3, <3>2, <4>1, <4>2
    <3>3. CASE k # 0 /\ ~(k <= m)
      <4>1. k - 1 \in 0 .. m + 1 /\ k - 1 <= m BY <3>3
      <4>2. f[k] = Scanned(c, k, g[k - 1]) /\ f[k - 1] = g[k - 1] BY <2>2, <3>3, <4>1
      <4> QED BY <3>3, <4>2
    <3> QED BY <3>1, <3>2, <3>3
  <2>5. ScansTo(c, m + 1, f)
    <3>1. f = [k \in 0 .. m + 1 |-> f[k]] BY <2>2
    <3>2. [k \in 0 .. m + 1 |-> f[k]]
            = [k \in 0 .. m + 1 |-> IF k = 0 THEN ScanStart ELSE Scanned(c, k, f[k - 1])] BY <2>4, Zenon
    <3> QED BY <3>1, <3>2 DEF ScansTo
  <2>6. m + 1 \in Nat OBVIOUS
  <2> QED BY <1>2, <2>5, <2>6
<1>5. \A k \in 0 .. L : k \in S BY <1>1, <1>3, <1>4, Upwards
<1> QED BY <1>1, <1>2, <1>5

LEMMA ScanIs ==
    ASSUME NEW c \in Texts
    PROVE  \E f : /\ Scan(c) = f[Len(c)] /\ f[0] = ScanStart
                  /\ \A k \in 0 .. Len(c) - 1 : f[k + 1] = Scanned(c, k + 1, f[k])
<1>1. PICK L \in Nat : L = Len(c) BY LenProperties DEF Texts
<1>2. PICK f : /\ f = CHOOSE g : g = [k \in 0 .. Len(c) |-> IF k = 0 THEN ScanStart ELSE Scanned(c, k, g[k - 1])]
  OBVIOUS
<1>3. ScansTo(c, Len(c), f) BY <1>2, ScanExists, Zenon DEF ScansTo
<1>4. Scan(c) = f[Len(c)] BY <1>2, Zenon DEF Scan, ScanStart
<1>5. PICK h : h = [k \in 0 .. L |-> IF k = 0 THEN ScanStart ELSE Scanned(c, k, f[k - 1])] OBVIOUS
<1>6. f = h BY <1>1, <1>3, <1>5 DEF ScansTo
<1>7. f[0] = ScanStart
  <2>1. h[0] = ScanStart BY <1>1, <1>5
  <2> QED BY <1>6, <2>1
<1>8. ASSUME NEW k \in 0 .. L - 1 PROVE f[k + 1] = Scanned(c, k + 1, f[k])
  <2>1. k + 1 \in 0 .. L /\ k + 1 # 0 /\ (k + 1) - 1 = k OBVIOUS
  <2>2. h[k + 1] = Scanned(c, k + 1, f[(k + 1) - 1]) BY <1>5, <2>1
  <2> QED BY <1>6, <2>1, <2>2
<1> QED BY <1>1, <1>4, <1>7, <1>8

\* Lines of a text.
LEMMA LineIs ==
    ASSUME NEW c, NEW k \in Nat
    PROVE  /\ IsFiniteSet({l \in 1 .. k : c[l] = NL}) /\ Line(c, k) \in Nat /\ Line(c, k) <= k
           /\ Line(c, 0) = 0
           /\ Line(c, k + 1) = IF c[k + 1] = NL THEN Line(c, k) + 1 ELSE Line(c, k)
           /\ \A j \in 0 .. k : Line(c, j) <= Line(c, k)
<1>1. PICK S : S = {l \in 1 .. k : c[l] = NL} OBVIOUS
<1>2. PICK T : T = {l \in 1 .. k + 1 : c[l] = NL} OBVIOUS
<1>3. IsFiniteSet(1 .. k) /\ Cardinality(1 .. k) = k
  <2>1. 1 \in Int /\ k \in Int OBVIOUS
  <2>2. IsFiniteSet(1 .. k) /\ Cardinality(1 .. k) = IF 1 > k THEN 0 ELSE k - 1 + 1 BY <2>1, FS_Interval
  <2> QED BY <2>2
<1>4. IsFiniteSet(S) /\ Cardinality(S) <= k
  <2>1. S \in SUBSET (1 .. k) BY <1>1
  <2> QED BY <1>3, <2>1, FS_Subset
<1>5. Cardinality(S) \in Nat BY <1>4, FS_CardinalityType
<1>6. Line(c, k) = Cardinality(S) /\ Line(c, k + 1) = Cardinality(T) BY <1>1, <1>2 DEF Line
<1>7. Line(c, 0) = 0
  <2>1. {l \in 1 .. 0 : c[l] = NL} = {} OBVIOUS
  <2> QED BY <2>1, FS_EmptySet DEF Line
<1>8. \A j \in 0 .. k : Line(c, j) <= Line(c, k)
  <2> TAKE j \in 0 .. k
  <2>1. {l \in 1 .. j : c[l] = NL} \in SUBSET S BY <1>1
  <2>2. Cardinality({l \in 1 .. j : c[l] = NL}) <= Cardinality(S) BY <1>4, <2>1, FS_Subset
  <2> QED BY <1>6, <2>2 DEF Line
<1>9. CASE c[k + 1] = NL
  <2>1. T = S \cup {k + 1}
    <3>1. 1 .. k + 1 = (1 .. k) \cup {k + 1} OBVIOUS
    <3> QED BY <1>1, <1>2, <1>9, <3>1
  <2>2. k + 1 \notin S BY <1>1
  <2>3. Cardinality(T) = Cardinality(S) + 1 BY <1>4, <2>1, <2>2, FS_AddElement
  <2> QED BY <1>1, <1>4, <1>5, <1>6, <1>7, <1>8, <1>9, <2>3
<1>10. CASE c[k + 1] # NL
  <2>1. T = S
    <3>1. 1 .. k + 1 = (1 .. k) \cup {k + 1} OBVIOUS
    <3> QED BY <1>1, <1>2, <1>10, <3>1
  <2> QED BY <1>1, <1>4, <1>5, <1>6, <1>7, <1>8, <1>10, <2>1
<1> QED BY <1>9, <1>10

\* What has been kept, ended, begun and left out once k characters are read.
Upto(c, k) == {j \in Kept(c) : j <= k}
Over(c, k) == {l \in Lines(c) : l < Line(c, k)}
Commented(c, k) == \E h \in 1 .. k : c[h] = Hash /\ \A l \in h .. k : c[l] # NL
Begun(c, k) == \E j \in Upto(c, k) : Line(c, j) = Line(c, k)

LEMMA TextFinite ==
    ASSUME NEW c \in Texts, NEW k \in Nat
    PROVE  /\ Kept(c) \subseteq 1 .. Len(c) /\ IsFiniteSet(Kept(c)) /\ IsFiniteSet(Lines(c)) /\ Lines(c) \subseteq Nat
           /\ IsFiniteSet(Upto(c, k)) /\ Cardinality(Upto(c, k)) \in Nat
           /\ IsFiniteSet(Over(c, k)) /\ Cardinality(Over(c, k)) \in Nat
<1>1. PICK L \in Nat : L = Len(c) /\ DOMAIN c = 1 .. L BY LenProperties DEF Texts
<1>2. \A a \in Int, b \in Int : IsFiniteSet(a .. b) BY FS_Interval
<1>3. Kept(c) \subseteq 1 .. L BY <1>1 DEF Kept
<1>4. IsFiniteSet(Kept(c))
  <2>1. Kept(c) \in SUBSET (1 .. L) /\ IsFiniteSet(1 .. L) BY <1>2, <1>3
  <2> QED BY <2>1, FS_Subset
<1>5. Lines(c) \subseteq 0 .. L
  <2>1. ASSUME NEW j \in Kept(c) PROVE Line(c, j) \in 0 .. L
    <3>1. j \in Nat /\ j <= L BY <1>3
    <3>2. Line(c, j) \in Nat /\ Line(c, j) <= j BY <3>1, LineIs
    <3> QED BY <3>1, <3>2
  <2> QED BY <2>1 DEF Lines
<1>6. IsFiniteSet(Lines(c))
  <2>1. Lines(c) \in SUBSET (0 .. L) /\ IsFiniteSet(0 .. L) BY <1>2, <1>5
  <2> QED BY <2>1, FS_Subset
<1>7. IsFiniteSet(Upto(c, k))
  <2>1. Upto(c, k) \in SUBSET Kept(c) BY DEF Upto
  <2> QED BY <1>4, <2>1, FS_Subset
<1>8. IsFiniteSet(Over(c, k))
  <2>1. Over(c, k) \in SUBSET Lines(c) BY DEF Over
  <2> QED BY <1>6, <2>1, FS_Subset
<1>9. Lines(c) \subseteq Nat BY <1>5
<1> QED BY <1>1, <1>3, <1>4, <1>6, <1>7, <1>8, <1>9, FS_CardinalityType

\* A character more.
LEMMA CommentStep ==
    ASSUME NEW c, NEW k \in Nat
    PROVE  /\ ~Commented(c, 0)
           /\ c[k + 1] = Hash => Commented(c, k + 1)
           /\ c[k + 1] = NL => ~Commented(c, k + 1)
           /\ c[k + 1] \notin {Hash, NL} => (Commented(c, k + 1) <=> Commented(c, k))
<1>1. NL # Hash BY DEF NL, Hash
<1>2. ~Commented(c, 0) BY DEF Commented
<1>3. c[k + 1] = Hash => Commented(c, k + 1)
  <2>1. k + 1 \in 1 .. k + 1 /\ \A l \in k + 1 .. k + 1 : l = k + 1 OBVIOUS
  <2> QED BY <1>1, <2>1 DEF Commented
<1>4. c[k + 1] = NL => ~Commented(c, k + 1)
  <2>1. \A h \in 1 .. k + 1 : k + 1 \in h .. k + 1 OBVIOUS
  <2> QED BY <2>1 DEF Commented
<1>5. ASSUME c[k + 1] \notin {Hash, NL}, Commented(c, k) PROVE Commented(c, k + 1)
  <2>1. PICK h \in 1 .. k : c[h] = Hash /\ \A l \in h .. k : c[l] # NL BY <1>5 DEF Commented
  <2>2. h \in 1 .. k + 1 /\ \A l \in h .. k + 1 : l \in h .. k \/ l = k + 1 OBVIOUS
  <2>3. \A l \in h .. k + 1 : c[l] # NL BY <1>5, <2>1, <2>2
  <2> QED BY <2>1, <2>2, <2>3 DEF Commented
<1>6. ASSUME c[k + 1] \notin {Hash, NL}, Commented(c, k + 1) PROVE Commented(c, k)
  <2>1. PICK h \in 1 .. k + 1 : c[h] = Hash /\ \A l \in h .. k + 1 : c[l] # NL BY <1>6 DEF Commented
  <2>2. h # k + 1 BY <1>6, <2>1
  <2>3. h \in 1 .. k /\ \A l \in h .. k : l \in h .. k + 1 BY <2>2
  <2> QED BY <2>1, <2>3 DEF Commented
<1> QED BY <1>2, <1>3, <1>4, <1>5, <1>6

LEMMA KeptStep ==
    ASSUME NEW c \in Texts, NEW k \in 0 .. Len(c) - 1
    PROVE  /\ Upto(c, 0) = {} /\ Over(c, 0) = {}
           /\ k + 1 \in Kept(c) <=> c[k + 1] = Char /\ ~Commented(c, k)
           /\ k + 1 \notin Upto(c, k)
           /\ k + 1 \in Kept(c) => Upto(c, k + 1) = Upto(c, k) \cup {k + 1}
           /\ k + 1 \notin Kept(c) => Upto(c, k + 1) = Upto(c, k)
<1>1. PICK L \in Nat : L = Len(c) /\ DOMAIN c = 1 .. L BY LenProperties DEF Texts
<1>2. Kept(c) \subseteq 1 .. L BY <1>1, TextFinite
<1>3. k \in Nat /\ k + 1 \in 1 .. L BY <1>1
<1>4. Upto(c, 0) = {} BY <1>2 DEF Upto
<1>5. Over(c, 0) = {}
  <2>1. Line(c, 0) = 0 /\ Lines(c) \subseteq Nat BY <1>3, LineIs, TextFinite
  <2> QED BY <2>1 DEF Over
<1>6. Char # Hash /\ Char # NL BY DEF Char, Hash, NL
<1>7. k + 1 \in Kept(c) <=> c[k + 1] = Char /\ ~Commented(c, k + 1)
  <2>1. k + 1 \in Kept(c) <=> c[k + 1] = Char /\ \A h \in 1 .. k + 1 : c[h] = Hash => \E l \in h .. k + 1 : c[l] = NL
    BY <1>1, <1>3 DEF Kept
  <2> QED BY <2>1 DEF Commented
<1>8. k + 1 \in Kept(c) <=> c[k + 1] = Char /\ ~Commented(c, k) BY <1>3, <1>6, <1>7, CommentStep
<1>9. k + 1 \notin Upto(c, k) BY <1>3 DEF Upto
<1>10. Kept(c) \subseteq Nat /\ \A j \in Nat : j <= k + 1 <=> (j <= k \/ j = k + 1) BY <1>2, <1>3
<1>11. Upto(c, k + 1) = Upto(c, k) \cup (Kept(c) \cap {k + 1}) BY <1>10 DEF Upto
<1> QED BY <1>4, <1>5, <1>8, <1>9, <1>11

LEMMA LineStep ==
    ASSUME NEW c \in Texts, NEW k \in 0 .. Len(c) - 1
    PROVE  /\ c[k + 1] # NL => Over(c, k + 1) = Over(c, k)
           /\ c[k + 1] = NL /\ Begun(c, k) => /\ Over(c, k + 1) = Over(c, k) \cup {Line(c, k)}
                                              /\ Line(c, k) \notin Over(c, k)
           /\ c[k + 1] = NL /\ ~Begun(c, k) => Over(c, k + 1) = Over(c, k)
           /\ c[k + 1] = NL => ~Begun(c, k + 1)
           /\ k + 1 \in Kept(c) => Begun(c, k + 1)
           /\ c[k + 1] # NL /\ k + 1 \notin Kept(c) => (Begun(c, k + 1) <=> Begun(c, k))
<1>1. PICK L \in Nat : L = Len(c) BY LenProperties DEF Texts
<1>2. Kept(c) \subseteq 1 .. L BY <1>1, TextFinite
<1>3. k \in Nat /\ k + 1 \in Nat BY <1>1
<1>4. Lines(c) \subseteq Nat BY <1>3, TextFinite
<1>5. PICK ln \in Nat : ln = Line(c, k) BY <1>3, LineIs
<1>6. Line(c, k + 1) = IF c[k + 1] = NL THEN ln + 1 ELSE ln BY <1>3, <1>5, LineIs
<1>7. c[k + 1] # NL => Over(c, k + 1) = Over(c, k) BY <1>5, <1>6 DEF Over
<1>8. ASSUME c[k + 1] = NL PROVE Over(c, k + 1) = Over(c, k) \cup (Lines(c) \cap {ln})
  <2>1. \A l \in Nat : l < ln + 1 <=> (l < ln \/ l = ln) BY <1>5
  <2>2. Line(c, k + 1) = ln + 1 BY <1>6, <1>8
  <2> QED BY <1>4, <1>5, <2>1, <2>2 DEF Over
<1>9. Line(c, k) \notin Over(c, k) BY <1>5 DEF Over
<1>10. ASSUME NEW j \in Upto(c, k) PROVE j \in Kept(c) /\ Line(c, j) \in Nat /\ Line(c, j) <= ln
  <2>1. j \in Kept(c) /\ j \in Nat /\ j <= k BY <1>2, <1>10 DEF Upto
  <2>2. j \in 0 .. k BY <1>3, <2>1
  <2>3. Line(c, j) \in Nat BY <2>1, LineIs
  <2>4. Line(c, j) <= Line(c, k) BY <1>3, <2>2, LineIs
  <2> QED BY <1>5, <2>1, <2>3, <2>4
<1>11. Begun(c, k) => ln \in Lines(c) BY <1>5, <1>10 DEF Begun, Lines
<1>12. ASSUME c[k + 1] = NL, ln \in Lines(c) PROVE Begun(c, k)
  <2>1. PICK j \in Kept(c) : ln = Line(c, j) BY <1>12 DEF Lines
  <2>2. j \in Nat BY <1>2
  <2>3. ASSUME ~(j <= k) PROVE FALSE
    <3>1. k + 1 \in 0 .. j BY <1>3, <2>2, <2>3
    <3>2. Line(c, k + 1) <= Line(c, j) BY <2>2, <3>1, LineIs
    <3>3. ln + 1 <= ln BY <1>6, <1>12, <2>1, <3>2
    <3> QED BY <1>5, <3>3
  <2>4. j \in Upto(c, k) BY <2>1, <2>3 DEF Upto
  <2> QED BY <1>5, <2>1, <2>4 DEF Begun
<1>13. NL # Char /\ (k + 1 \in Kept(c) => c[k + 1] = Char) BY KeptStep DEF NL, Char
<1>14. c[k + 1] = NL => ~Begun(c, k + 1)
  <2>1. SUFFICES ASSUME c[k + 1] = NL, Begun(c, k + 1) PROVE FALSE OBVIOUS
  <2>2. Upto(c, k + 1) = Upto(c, k) BY <1>13, <2>1, KeptStep
  <2>3. PICK j \in Upto(c, k) : Line(c, j) = Line(c, k + 1) BY <2>1, <2>2 DEF Begun
  <2>4. Line(c, j) = ln + 1 /\ Line(c, j) <= ln BY <1>6, <1>10, <2>1, <2>3
  <2> QED BY <1>5, <2>4
<1>15. k + 1 \in Kept(c) => Begun(c, k + 1)
  <2>1. k + 1 \in Kept(c) => k + 1 \in Upto(c, k + 1) BY <1>3 DEF Upto
  <2> QED BY <2>1 DEF Begun
<1>16. c[k + 1] # NL /\ k + 1 \notin Kept(c) => (Begun(c, k + 1) <=> Begun(c, k))
  <2>1. SUFFICES ASSUME c[k + 1] # NL, k + 1 \notin Kept(c) PROVE Begun(c, k + 1) <=> Begun(c, k) OBVIOUS
  <2>2. Upto(c, k + 1) = Upto(c, k) BY <2>1, KeptStep
  <2>3. Line(c, k + 1) = Line(c, k) BY <1>5, <1>6, <2>1
  <2> QED BY <2>2, <2>3 DEF Begun
<1> QED BY <1>5, <1>7, <1>8, <1>9, <1>11, <1>12, <1>14, <1>15, <1>16

\* The output of condense after k characters, and the line it is in.
ScanType(s) == s = [out |-> s.out, line |-> s.line, skipping |-> s.skipping]
               /\ s.out \in Seq(Nat) /\ s.line \in Nat /\ s.skipping \in BOOLEAN
Placed(c, k, o) ==
    /\ \A j \in Upto(c, k) : Place(c, j) \in 1 .. Len(o) /\ o[Place(c, j)] = Byte(c, j)
    /\ \A p \in 1 .. Len(o) : (\E j \in Upto(c, k) : Place(c, j) = p) \/ o[p] = 0
ScanInv(c, k, s) ==
    /\ ScanType(s)
    /\ s.skipping <=> Commented(c, k)
    /\ Len(s.out) <= k
    /\ Len(s.out) = Cardinality(Upto(c, k)) + Cardinality(Over(c, k))
    /\ s.line <= Len(s.out) /\ (Len(s.out) # s.line <=> Begun(c, k))
    /\ Placed(c, k, s.out)

LEMMA AppendNat ==
    ASSUME NEW o \in Seq(Nat), NEW e \in Nat
    PROVE  /\ Append(o, e) \in Seq(Nat) /\ Len(Append(o, e)) = Len(o) + 1 /\ Len(o) \in Nat
           /\ \A p \in 1 .. Len(o) : Append(o, e)[p] = o[p]
           /\ Append(o, e)[Len(o) + 1] = e
BY AppendProperties, LenProperties

LEMMA ByteIs == ASSUME NEW c, NEW k \in Nat PROVE Byte(c, k) \in Nat
BY LoadSizes DEF Byte

\* A null more leaves every character at its place.
LEMMA NullPlaced ==
    ASSUME NEW c, NEW k, NEW o \in Seq(Nat), Placed(c, k, o)
    PROVE  Placed(c, k, Append(o, 0))
<1>1. PICK lo \in Nat : lo = Len(o) BY LenProperties
<1>2. PICK a : a = Append(o, 0) OBVIOUS
<1>3. Len(a) = lo + 1 /\ a[lo + 1] = 0 /\ \A p \in 1 .. lo : a[p] = o[p] BY <1>1, <1>2, AppendNat
<1>4. ASSUME NEW j \in Upto(c, k) PROVE Place(c, j) \in 1 .. lo + 1 /\ a[Place(c, j)] = Byte(c, j)
  <2>1. Place(c, j) \in 1 .. lo /\ o[Place(c, j)] = Byte(c, j) BY <1>1 DEF Placed
  <2> QED BY <1>3, <2>1
<1>5. ASSUME NEW p \in 1 .. lo + 1 PROVE (\E j \in Upto(c, k) : Place(c, j) = p) \/ a[p] = 0
  <2>1. CASE p \in 1 .. lo
    <3>1. (\E j \in Upto(c, k) : Place(c, j) = p) \/ o[p] = 0 BY <1>1, <2>1 DEF Placed
    <3> QED BY <1>3, <2>1, <3>1
  <2>2. CASE p \notin 1 .. lo
    <3>1. p = lo + 1 BY <2>2
    <3> QED BY <1>3, <3>1
  <2> QED BY <2>1, <2>2
<1> QED BY <1>2, <1>3, <1>4, <1>5 DEF Placed

LEMMA SkippingSet ==
    ASSUME NEW o, NEW ln, NEW sk, NEW v
    PROVE  [[out |-> o, line |-> ln, skipping |-> sk] EXCEPT !.skipping = v] = [out |-> o, line |-> ln, skipping |-> v]
OBVIOUS

\* One character.
LEMMA ScanStep ==
    ASSUME NEW c \in Texts, NEW k \in 0 .. Len(c) - 1, NEW s, ScanInv(c, k, s)
    PROVE  ScanInv(c, k + 1, Scanned(c, k + 1, s))
<1>1. PICK L \in Nat : L = Len(c) /\ c \in [1 .. L -> {Char, NL, Hash, CR}] BY LenProperties DEF Texts
<1>2. k \in Nat /\ k + 1 \in Nat /\ k + 1 \in 1 .. L BY <1>1
<1>3. c[k + 1] \in {Char, NL, Hash, CR} BY <1>1, <1>2
<1>4. Char # NL /\ Char # Hash /\ Char # CR /\ NL # Hash /\ NL # CR /\ Hash # CR BY DEF Char, NL, Hash, CR
<1>5. PICK o \in Seq(Nat) : o = s.out BY DEF ScanInv, ScanType
<1>6. PICK ln \in Nat : ln = s.line BY DEF ScanInv, ScanType
<1>7. PICK sk \in BOOLEAN : sk = s.skipping BY DEF ScanInv, ScanType
<1>8. s = [out |-> o, line |-> ln, skipping |-> sk] BY <1>5, <1>6, <1>7 DEF ScanInv, ScanType
<1>9. PICK lo \in Nat : lo = Len(o) BY LenProperties
<1>10. /\ sk <=> Commented(c, k)
       /\ lo <= k /\ lo = Cardinality(Upto(c, k)) + Cardinality(Over(c, k))
       /\ ln <= lo /\ (lo # ln <=> Begun(c, k)) /\ Placed(c, k, o)
  BY <1>5, <1>6, <1>7, <1>9 DEF ScanInv
<1>11. ASSUME NEW o2 \in Seq(Nat), NEW ln2 \in Nat, NEW sk2 \in BOOLEAN,
              sk2 <=> Commented(c, k + 1), Len(o2) <= k + 1,
              Len(o2) = Cardinality(Upto(c, k + 1)) + Cardinality(Over(c, k + 1)),
              ln2 <= Len(o2), Len(o2) # ln2 <=> Begun(c, k + 1), Placed(c, k + 1, o2)
       PROVE  ScanInv(c, k + 1, [out |-> o2, line |-> ln2, skipping |-> sk2])
  BY <1>11 DEF ScanInv, ScanType
<1>12. ASSUME c[k + 1] # NL, k + 1 \notin Kept(c)
       PROVE  /\ Upto(c, k + 1) = Upto(c, k) /\ Over(c, k + 1) = Over(c, k)
              /\ Begun(c, k + 1) <=> Begun(c, k) /\ TRUE
              /\ Placed(c, k + 1, o) /\ lo <= k + 1
  <2>1. Upto(c, k + 1) = Upto(c, k) BY <1>12, KeptStep
  <2>2. Over(c, k + 1) = Over(c, k) /\ (Begun(c, k + 1) <=> Begun(c, k)) BY <1>12, LineStep
  <2>3. Placed(c, k + 1, o) BY <1>10, <2>1 DEF Placed
  <2>4. lo <= k + 1 BY <1>2, <1>10
  <2> QED BY <2>1, <2>2, <2>3, <2>4
<1>13. k + 1 \in Kept(c) <=> c[k + 1] = Char /\ ~sk BY <1>10, KeptStep
<1>14. CASE c[k + 1] = Hash
  <2>1. Scanned(c, k + 1, s) = [out |-> o, line |-> ln, skipping |-> TRUE]
    <3>1. Scanned(c, k + 1, s) = [s EXCEPT !.skipping = TRUE] BY <1>4, <1>14 DEF Scanned
    <3>2. [s EXCEPT !.skipping = TRUE] = [out |-> o, line |-> ln, skipping |-> TRUE]
      <4>1. PICK v : v = TRUE OBVIOUS
      <4>2. [s EXCEPT !.skipping = v] = [out |-> o, line |-> ln, skipping |-> v] BY <1>8, SkippingSet
      <4> QED BY <4>1, <4>2, Zenon
    <3> QED BY <3>1, <3>2
  <2>2. Commented(c, k + 1) BY <1>2, <1>14, CommentStep
  <2> QED BY <1>4, <1>9, <1>10, <1>11, <1>12, <1>13, <1>14, <2>1, <2>2
<1>15. CASE c[k + 1] = CR
  <2>1. Scanned(c, k + 1, s) = [out |-> o, line |-> ln, skipping |-> sk] BY <1>4, <1>8, <1>15 DEF Scanned
  <2>2. Commented(c, k + 1) <=> Commented(c, k) BY <1>2, <1>4, <1>15, CommentStep
  <2> QED BY <1>4, <1>9, <1>10, <1>11, <1>12, <1>13, <1>15, <2>1, <2>2
<1>16. CASE c[k + 1] = NL
  <2>1. Scanned(c, k + 1, s) = Newline(s) BY <1>4, <1>16 DEF Scanned
  <2>2. ~Commented(c, k + 1) /\ ~Begun(c, k + 1) BY <1>2, <1>16, CommentStep, LineStep
  <2>3. Upto(c, k + 1) = Upto(c, k) BY <1>4, <1>13, <1>16, KeptStep
  <2>4. CASE lo = ln
    <3>1. Newline(s) = [out |-> o, line |-> ln, skipping |-> FALSE] BY <1>8, <1>9, <2>4 DEF Newline
    <3>2. Over(c, k + 1) = Over(c, k) BY <1>10, <1>16, <2>4, LineStep
    <3>3. Placed(c, k + 1, o) BY <1>10, <2>3 DEF Placed
    <3>4. lo <= k + 1 BY <1>2, <1>10
    <3> QED BY <1>9, <1>10, <1>11, <2>1, <2>2, <2>3, <2>4, <3>1, <3>2, <3>3, <3>4
  <2>5. CASE lo # ln
    <3>1. PICK a : a = Append(o, 0) OBVIOUS
    <3>2. a \in Seq(Nat) /\ Len(a) = lo + 1 BY <1>9, <3>1, AppendNat
    <3>3. Newline(s) = [out |-> a, line |-> lo + 1, skipping |-> FALSE] BY <1>8, <1>9, <2>5, <3>1 DEF Newline
    <3>4. Over(c, k + 1) = Over(c, k) \cup {Line(c, k)} /\ Line(c, k) \notin Over(c, k) BY <1>10, <1>16, <2>5, LineStep
    <3>5. Cardinality(Over(c, k + 1)) = Cardinality(Over(c, k)) + 1
      <4>1. IsFiniteSet(Over(c, k)) BY <1>2, TextFinite
      <4> QED BY <3>4, <4>1, FS_AddElement
    <3>6. Placed(c, k + 1, a)
      <4>1. Placed(c, k, a) BY <1>10, <3>1, NullPlaced
      <4> QED BY <2>3, <4>1 DEF Placed
    <3>7. Cardinality(Upto(c, k)) \in Nat /\ Cardinality(Over(c, k)) \in Nat BY <1>2, TextFinite
    <3>8. lo + 1 <= k + 1 BY <1>2, <1>10
    <3>9. lo + 1 = Cardinality(Upto(c, k + 1)) + Cardinality(Over(c, k + 1)) BY <1>10, <2>3, <3>5, <3>7
    <3>10. ScanInv(c, k + 1, [out |-> a, line |-> lo + 1, skipping |-> FALSE])
      <4>1. lo + 1 \in Nat /\ FALSE \in BOOLEAN OBVIOUS
      <4>2. lo + 1 <= Len(a) /\ ~(Len(a) # lo + 1) BY <3>2
      <4> QED BY <1>11, <2>2, <3>2, <3>6, <3>8, <3>9, <4>1, <4>2
    <3> QED BY <2>1, <3>3, <3>10
  <2> QED BY <2>4, <2>5
<1>17. CASE c[k + 1] = Char /\ sk
  <2>1. Scanned(c, k + 1, s) = [out |-> o, line |-> ln, skipping |-> sk] BY <1>4, <1>7, <1>8, <1>17 DEF Scanned
  <2>2. Commented(c, k + 1) <=> Commented(c, k) BY <1>2, <1>4, <1>17, CommentStep
  <2> QED BY <1>4, <1>9, <1>10, <1>11, <1>12, <1>13, <1>17, <2>1, <2>2
<1>18. CASE c[k + 1] = Char /\ ~sk
  <2>1. PICK b \in Nat : b = Byte(c, k + 1) BY <1>2, ByteIs
  <2>2. PICK a : a = Append(o, b) OBVIOUS
  <2>3. a \in Seq(Nat) /\ Len(a) = lo + 1 /\ a[lo + 1] = b /\ \A p \in 1 .. lo : a[p] = o[p]
    BY <1>9, <2>2, AppendNat
  <2>4. Scanned(c, k + 1, s) = [out |-> a, line |-> ln, skipping |-> sk]
    <3>1. Scanned(c, k + 1, s) = [s EXCEPT !.out = Append(@, Byte(c, k + 1))] BY <1>4, <1>7, <1>18 DEF Scanned
    <3>2. Scanned(c, k + 1, s) = [s EXCEPT !.out = a] BY <1>5, <2>1, <2>2, <3>1
    <3>3. [s EXCEPT !.out = a] = [out |-> a, line |-> ln, skipping |-> sk] BY <1>8
    <3> QED BY <3>2, <3>3
  <2>5. Commented(c, k + 1) <=> Commented(c, k) BY <1>2, <1>4, <1>18, CommentStep
  <2>6. k + 1 \in Kept(c) BY <1>13, <1>18
  <2>7. Upto(c, k + 1) = Upto(c, k) \cup {k + 1} /\ k + 1 \notin Upto(c, k) BY <2>6, KeptStep
  <2>8. Over(c, k + 1) = Over(c, k) /\ Begun(c, k + 1) BY <1>4, <1>18, <2>6, LineStep
  <2>9. Cardinality(Upto(c, k)) \in Nat /\ Cardinality(Over(c, k)) \in Nat /\ IsFiniteSet(Upto(c, k)) BY <1>2, TextFinite
  <2>10. Cardinality(Upto(c, k + 1)) = Cardinality(Upto(c, k)) + 1 BY <2>7, <2>9, FS_AddElement
  <2>11. lo + 1 = Cardinality(Upto(c, k + 1)) + Cardinality(Over(c, k + 1)) BY <1>10, <2>8, <2>9, <2>10
  <2>12. Place(c, k + 1) = lo + 1 BY <2>11 DEF Place, Upto, Over
  <2>13. ASSUME NEW j \in Upto(c, k + 1) PROVE Place(c, j) \in 1 .. lo + 1 /\ a[Place(c, j)] = Byte(c, j)
    <3>1. CASE j = k + 1 BY <2>1, <2>3, <2>12, <3>1
    <3>2. CASE j # k + 1
      <4>1. j \in Upto(c, k) BY <2>7, <3>2
      <4>2. Place(c, j) \in 1 .. lo /\ o[Place(c, j)] = Byte(c, j) BY <1>9, <1>10, <4>1 DEF Placed
      <4> QED BY <2>3, <4>2
    <3> QED BY <3>1, <3>2
  <2>14. ASSUME NEW p \in 1 .. lo + 1 PROVE (\E j \in Upto(c, k + 1) : Place(c, j) = p) \/ a[p] = 0
    <3>1. CASE p \in 1 .. lo
      <4>1. (\E j \in Upto(c, k) : Place(c, j) = p) \/ o[p] = 0 BY <1>9, <1>10, <3>1 DEF Placed
      <4> QED BY <2>3, <2>7, <3>1, <4>1
    <3>2. CASE p \notin 1 .. lo
      <4>1. p = lo + 1 BY <3>2
      <4> QED BY <2>7, <2>12, <4>1
    <3> QED BY <3>1, <3>2
  <2>15. Placed(c, k + 1, a) BY <2>3, <2>13, <2>14 DEF Placed
  <2>16. lo + 1 <= k + 1 /\ ln <= lo + 1 /\ lo + 1 # ln BY <1>2, <1>10
  <2> QED BY <1>10, <1>11, <2>3, <2>4, <2>5, <2>8, <2>11, <2>15, <2>16
<1> QED BY <1>3, <1>14, <1>15, <1>16, <1>17, <1>18

LEMMA ScanHolds == ASSUME NEW c \in Texts PROVE ScanInv(c, Len(c), Scan(c))
<1>1. PICK L \in Nat : L = Len(c) BY LenProperties DEF Texts
<1>2. PICK f : /\ Scan(c) = f[L] /\ f[0] = ScanStart
               /\ \A k \in 0 .. L - 1 : f[k + 1] = Scanned(c, k + 1, f[k])
  BY <1>1, ScanIs
<1>3. PICK S : S = {k \in Nat : ScanInv(c, k, f[k])} OBVIOUS
<1>4. 0 \in S
  <2>1. ScanInv(c, 0, ScanStart)
    <3>1. Upto(c, 0) = {} /\ Over(c, 0) = {}
      <4>1. Line(c, 0) = 0 /\ Lines(c) \subseteq Nat /\ Kept(c) \subseteq 1 .. L BY <1>1, LineIs, TextFinite
      <4> QED BY <4>1 DEF Over, Upto
    <3>2. ~Commented(c, 0) BY DEF Commented
    <3>3. ~Begun(c, 0) BY <3>1 DEF Begun
    <3>4. <<>> \in Seq(Nat) /\ Len(<<>>) = 0 BY EmptySeq
    <3>5. Placed(c, 0, <<>>) BY <3>1, <3>4 DEF Placed
    <3>6. Len(<<>>) = Cardinality(Upto(c, 0)) + Cardinality(Over(c, 0)) BY <3>1, <3>4, FS_EmptySet
    <3>7. ScanStart.out = <<>> /\ ScanStart.line = 0 /\ ScanStart.skipping = FALSE BY DEF ScanStart
    <3>8. ScanType(ScanStart) BY <3>4 DEF ScanStart, ScanType
    <3> QED BY <3>2, <3>3, <3>4, <3>5, <3>6, <3>7, <3>8 DEF ScanInv
  <2> QED BY <1>2, <1>3, <2>1
<1>5. ASSUME NEW k \in 0 .. L - 1, k \in S PROVE k + 1 \in S
  <2>1. ScanInv(c, k, f[k]) BY <1>3, <1>5
  <2>2. ScanInv(c, k + 1, Scanned(c, k + 1, f[k])) BY <1>1, <2>1, ScanStep
  <2>3. ScanInv(c, k + 1, f[k + 1]) /\ k + 1 \in Nat BY <1>1, <1>2, <2>2
  <2> QED BY <1>3, <2>3
<1>6. \A k \in 0 .. L : k \in S BY <1>4, <1>5, Upwards
<1> QED BY <1>1, <1>2, <1>3, <1>6

LEMMA ConfigIsText == ASSUME NEW c \in Configs PROVE c \in Texts /\ Len(c) \in Nat /\ Len(c) <= MaxConfig
<1>1. PICK k \in 1 .. MaxConfig : c \in [1 .. k -> {Char, NL, Hash, CR}] BY DEF Configs
<1>2. k \in Nat /\ k <= MaxConfig BY <1>1, LoadSizes
<1>3. c \in Seq({Char, NL, Hash, CR}) /\ Len(c) = k BY <1>1, <1>2, FcnIsSeq
<1> QED BY <1>2, <1>3 DEF Texts

\* What condense makes, before it is padded.
Ended(s) == Append(IF ~s.skipping /\ Len(s.out) # s.line THEN Append(s.out, 0) ELSE s.out, 0)

LEMMA EndedIs ==
    ASSUME NEW s, ScanType(s)
    PROVE  /\ Ended(s) \in Seq(Nat) /\ Len(Ended(s)) \in Nat
           /\ Len(Ended(s)) > 0 /\ Len(Ended(s)) <= Len(s.out) + 2
<1>1. PICK o \in Seq(Nat) : o = s.out BY DEF ScanType
<1>2. PICK lo \in Nat : lo = Len(o) BY LenProperties
<1>3. PICK a : a = Append(o, 0) OBVIOUS
<1>4. a \in Seq(Nat) /\ Len(a) = lo + 1 BY <1>2, <1>3, AppendNat
<1>5. Append(a, 0) \in Seq(Nat) /\ Len(Append(a, 0)) = lo + 2 BY <1>2, <1>4, AppendNat
<1>6. Ended(s) = a \/ Ended(s) = Append(a, 0) BY <1>1, <1>3 DEF Ended
<1>7. CASE Ended(s) = a BY <1>1, <1>2, <1>4, <1>7
<1>8. CASE Ended(s) = Append(a, 0) BY <1>1, <1>2, <1>5, <1>8
<1> QED BY <1>6, <1>7, <1>8

LEMMA CondenseIs ==
    ASSUME NEW c \in Configs
    PROVE  /\ condense(c) \in Seq(Nat) /\ Len(condense(c)) \in Nat
           /\ Len(condense(c)) > 0 /\ Len(condense(c)) % 4 = 0 /\ Len(condense(c)) <= MaxConfig + 5
<1>1. PICK s : s = Scan(c) OBVIOUS
<1>2. c \in Texts /\ Len(c) \in Nat /\ Len(c) <= MaxConfig BY ConfigIsText
<1>3. ScanInv(c, Len(c), s) BY <1>1, <1>2, ScanHolds
<1>4. ScanType(s) /\ Len(s.out) <= Len(c) BY <1>3 DEF ScanInv
<1>5. PICK e \in Seq(Nat) : e = Ended(s) /\ Len(e) \in Nat /\ Len(e) > 0 /\ Len(e) <= Len(s.out) + 2 BY <1>4, EndedIs
<1>6. condense(c) = Padded(e) BY <1>1, <1>5 DEF condense, Ended
<1>7. PICK q \in Seq(Nat) : q = Padded(e) /\ Len(q) % 4 = 0 /\ Len(q) >= Len(e) /\ Len(q) <= Len(e) + 3
  BY <1>5, PaddedIs
<1>8. Len(q) \in Nat /\ Len(s.out) \in Nat BY <1>4, <1>7, LenProperties DEF ScanType
<1>9. Len(q) > 0 /\ Len(q) <= MaxConfig + 5
  <2>1. PICK lc \in Nat, lo \in Nat, le \in Nat, lq \in Nat, mc \in Nat :
          lc = Len(c) /\ lo = Len(s.out) /\ le = Len(e) /\ lq = Len(q) /\ mc = MaxConfig
    BY <1>2, <1>5, <1>8, LoadSizes
  <2>2. lc <= mc /\ lo <= lc /\ le <= lo + 2 /\ lq <= le + 3 /\ lq >= le /\ le > 0 BY <1>2, <1>4, <1>5, <1>7, <2>1
  <2>3. lq > 0 /\ lq <= mc + 5 BY <2>2
  <2> QED BY <2>1, <2>3
<1> QED BY <1>6, <1>7, <1>8, <1>9

\* The characters that are left, each at its place, and nulls.
Laid(c, u) == [p \in 1 .. u |-> IF \E j \in Kept(c) : Place(c, j) = p
                                  THEN Byte(c, CHOOSE j \in Kept(c) : Place(c, j) = p) ELSE 0]

LEMMA LaidIs ==
    ASSUME NEW c, NEW L \in Nat, Kept(c) \subseteq 1 .. L,
           NEW o \in Seq(Nat), Placed(c, L, o)
    PROVE  o = Laid(c, Len(o))
<1>1. PICK lo \in Nat : lo = Len(o) /\ o \in [1 .. lo -> Nat] BY LenProperties
<1>2. Upto(c, L) = Kept(c) BY DEF Upto
<1>3. ASSUME NEW p \in 1 .. lo
      PROVE  o[p] = IF \E j \in Kept(c) : Place(c, j) = p
                      THEN Byte(c, CHOOSE j \in Kept(c) : Place(c, j) = p) ELSE 0
  <2>1. CASE \E j \in Kept(c) : Place(c, j) = p
    <3>1. PICK j : j = CHOOSE jj \in Kept(c) : Place(c, jj) = p OBVIOUS
    <3>2. j \in Kept(c) /\ Place(c, j) = p BY <2>1, <3>1
    <3>3. o[Place(c, j)] = Byte(c, j) BY <1>2, <3>2 DEF Placed
    <3>4. o[p] = Byte(c, j) BY <3>2, <3>3
    <3> QED BY <2>1, <3>1, <3>4, Zenon
  <2>2. CASE ~ \E j \in Kept(c) : Place(c, j) = p
    <3>1. o[p] = 0 BY <1>1, <1>2, <2>2 DEF Placed
    <3> QED BY <2>2, <3>1
  <2> QED BY <2>1, <2>2
<1>4. o = [p \in 1 .. lo |-> o[p]] BY <1>1
<1>5. [p \in 1 .. lo |-> o[p]] = Laid(c, lo) BY <1>3, Zenon DEF Laid
<1> QED BY <1>1, <1>4, <1>5

\* All lines are over at the end, but the one that is not.
LEMMA LastLine ==
    ASSUME NEW c \in Texts, NEW L \in Nat, L = Len(c)
    PROVE  /\ Upto(c, L) = Kept(c)
           /\ Begun(c, L) => Cardinality(Lines(c)) = Cardinality(Over(c, L)) + 1
           /\ ~Begun(c, L) => Cardinality(Lines(c)) = Cardinality(Over(c, L))
<1>1. Kept(c) \subseteq 1 .. L BY TextFinite
<1>2. Upto(c, L) = Kept(c) BY <1>1 DEF Upto
<1>3. PICK ln \in Nat : ln = Line(c, L) BY LineIs
<1>4. \A j \in Kept(c) : Line(c, j) \in Nat /\ Line(c, j) <= ln
  <2> TAKE j \in Kept(c)
  <2>1. j \in Nat /\ j \in 0 .. L BY <1>1
  <2> QED BY <1>3, <2>1, LineIs
<1>5. \A l \in Lines(c) : l \in Nat /\ (l < ln \/ l = ln) BY <1>4 DEF Lines
<1>6. Lines(c) = Over(c, L) \cup (Lines(c) \cap {ln}) /\ ln \notin Over(c, L) BY <1>3, <1>5 DEF Over
<1>7. ln \in Lines(c) <=> Begun(c, L) BY <1>2, <1>3 DEF Begun, Lines
<1>8. IsFiniteSet(Over(c, L)) BY TextFinite
<1>9. CASE Begun(c, L)
  <2>1. Lines(c) = Over(c, L) \cup {ln} BY <1>6, <1>7, <1>9
  <2>2. Cardinality(Lines(c)) = Cardinality(Over(c, L)) + 1 BY <1>6, <1>8, <2>1, FS_AddElement
  <2> QED BY <1>2, <1>9, <2>2
<1>10. CASE ~Begun(c, L)
  <2>1. Lines(c) = Over(c, L) BY <1>6, <1>7, <1>10
  <2> QED BY <1>2, <1>10, <2>1
<1> QED BY <1>9, <1>10

\* condense keeps its promise, but for a comment that ends the file behind text.
LEMMA CondensedAsPromised == ASSUME NEW c \in Configs PROVE condense(c) = Promised(c) \/ CommentAtEnd(c)
<1>1. PICK s : s = Scan(c) OBVIOUS
<1>2. c \in Texts BY ConfigIsText
<1>3. PICK L \in Nat : L = Len(c) BY <1>2, LenProperties DEF Texts
<1>4. ScanInv(c, L, s) BY <1>1, <1>2, <1>3, ScanHolds
<1>5. PICK o \in Seq(Nat) : o = s.out BY <1>4 DEF ScanInv, ScanType
<1>6. PICK lo \in Nat : lo = Len(o) BY LenProperties
<1>7. lo = Cardinality(Upto(c, L)) + Cardinality(Over(c, L)) /\ (lo # s.line <=> Begun(c, L)) /\ Placed(c, L, o)
  BY <1>4, <1>5, <1>6 DEF ScanInv
<1>8. Cardinality(Upto(c, L)) \in Nat /\ Cardinality(Over(c, L)) \in Nat /\ Kept(c) \subseteq 1 .. L
  BY <1>2, <1>3, TextFinite
<1>9. PICK u : u = Cardinality(Kept(c)) + Cardinality(Lines(c)) + 1 OBVIOUS
<1>10. Promised(c) = Padded(Laid(c, u)) BY <1>9 DEF Promised, Laid
<1>11. condense(c) = Padded(Ended(s)) BY <1>1 DEF condense, Ended
<1>12. PICK a : a = Append(o, 0) OBVIOUS
<1>13. a \in Seq(Nat) /\ Len(a) = lo + 1 /\ Placed(c, L, a)
  <2>1. a \in Seq(Nat) /\ Len(a) = lo + 1 BY <1>6, <1>12, AppendNat
  <2>2. Placed(c, L, a) BY <1>7, <1>12, NullPlaced
  <2> QED BY <2>1, <2>2
<1>14. CASE lo = s.line
  <2>1. u = lo + 1 BY <1>2, <1>3, <1>7, <1>8, <1>9, <1>14, LastLine
  <2>2. a = Laid(c, lo + 1) BY <1>8, <1>13, LaidIs
  <2>3. Ended(s) = a BY <1>5, <1>6, <1>12, <1>14 DEF Ended
  <2> QED BY <1>10, <1>11, <2>1, <2>2, <2>3
<1>15. CASE lo # s.line /\ s.skipping BY <1>1, <1>5, <1>6, <1>15 DEF CommentAtEnd
<1>16. CASE lo # s.line /\ ~s.skipping
  <2>1. u = lo + 2 BY <1>2, <1>3, <1>7, <1>8, <1>9, <1>16, LastLine
  <2>2. PICK b : b = Append(a, 0) OBVIOUS
  <2>3. b \in Seq(Nat) /\ Len(b) = lo + 2 /\ Placed(c, L, b)
    <3>1. Len(b) = lo + 1 + 1 BY <1>13, <2>2, AppendNat
    <3>2. b \in Seq(Nat) /\ Placed(c, L, b) BY <1>13, <2>2, AppendNat, NullPlaced
    <3> QED BY <3>1, <3>2
  <2>4. b = Laid(c, lo + 2) BY <1>8, <2>3, LaidIs
  <2>5. Ended(s) = b BY <1>5, <1>6, <1>12, <1>16, <2>2 DEF Ended
  <2> QED BY <1>10, <1>11, <2>1, <2>4, <2>5
<1> QED BY <1>14, <1>15, <1>16

-----------------------------------------------------------------------------
(* LoadIInv is inductive.                                                  *)

LEMMA FirstPartIs ==
    ASSUME NEW o \in Nat, o % 4 = 0
    PROVE  /\ FirstPart(o) \in Nat /\ FirstPart(o) > 0 /\ FirstPart(o) % 4 = 0
           /\ FirstPart(o) + (o % Sbwsize) = Sbwsize
<1>1. PICK w \in Nat \ {0} : w = Sbwsize /\ w % 4 = 0 BY LoadSizes
<1>2. PICK r \in Nat : r = o % w /\ r < w /\ r % 4 = 0 BY <1>1, Rem, FourRem
<1>3. CASE r = 0
  <2>1. FirstPart(o) = w BY <1>1, <1>2, <1>3 DEF FirstPart
  <2> QED BY <1>1, <1>2, <1>3, <2>1
<1>4. CASE r # 0
  <2>1. FirstPart(o) = w - r BY <1>1, <1>2, <1>4 DEF FirstPart
  <2>2. w >= r /\ (w - r) % 4 = 0 BY <1>1, <1>2, Fours
  <2> QED BY <1>1, <1>2, <1>4, <2>1, <2>2
<1> QED BY <1>3, <1>4

LEMMA RamTop == /\ RamSize - 4 \in Nat /\ (RamSize - 4) % 4 = 0 /\ FwLen < RamSize - 4
                /\ Addresses = 0 .. RamSize - 1 /\ Addresses \subseteq Nat
<1>1. RamSize \in Nat /\ FwLen \in Nat /\ MaxConfig \in Nat /\ FwLen + MaxConfig + 12 <= RamSize /\ RamSize % 4 = 0
  BY LoadSizes
<1>2. RamSize - 4 \in Nat /\ FwLen < RamSize - 4 BY <1>1
<1>3. (RamSize - 4) % 4 = 0 BY <1>1, <1>2
<1>4. Addresses = 0 .. RamSize - 1 BY DEF Addresses
<1>5. Addresses \subseteq Nat BY <1>1, <1>4
<1> QED BY <1>2, <1>3, <1>4, <1>5

LEMMA FourBytes ==
    ASSUME NEW x \in Nat PROVE [k \in 1 .. 4 |-> x] \in Seq(Nat) /\ Len([k \in 1 .. 4 |-> x]) = 4
<1>1. [k \in 1 .. 4 |-> x] \in [1 .. 4 -> Nat] /\ 4 \in Nat OBVIOUS
<1> QED BY <1>1, FcnIsSeq

LEMMA TokenIs ==
    ASSUME NEW r \in Int, r >= -1
    PROVE  /\ TokenBytes(r) \in Seq(Nat) /\ Len(TokenBytes(r)) = 4
           /\ \A k \in 1 .. 4 : TokenBytes(r)[k] = TokenBytes(r)[1]
<1>1. PICK x \in Nat : x = 1000 + (IF r = -1 THEN 65535 ELSE r \div 4)
  <2>1. r # -1 => r \div 4 \in Nat OBVIOUS
  <2> QED BY <2>1
<1>2. TokenBytes(r) = [k \in 1 .. 4 |-> x] BY <1>1 DEF TokenBytes
<1> QED BY <1>2, FourBytes

LEMMA ZeroWord == <<0, 0, 0, 0>> \in Seq(Nat) /\ Len(<<0, 0, 0, 0>>) = 4
OBVIOUS

LEMMA LoadInit == ASSUME Init PROVE LoadIInv
<1>1. LoadType
  <2>1. window % Sbwsize = 0
    <3>1. Sbwsize \in Nat \ {0} /\ 0 \in Nat /\ 0 < Sbwsize BY LoadSizes
    <3>2. 0 % Sbwsize = 0 BY <3>1, RemSmall
    <3> QED BY <3>2 DEF Init
  <2>2. ram \in [Addresses -> Int] /\ cbuf \in [1 .. Uploadsz -> Int] BY DEF Init, Old
  <2>3. window \in Addresses BY LoadSizes, RamTop DEF Init
  <2>4. buf \in Seq(Nat) BY EmptySeq DEF Init
  <2> QED BY <2>1, <2>2, <2>3, <2>4 DEF Init, LoadType, Phases
<1>2. LoadBuffer BY EmptySeq, LoadSizes DEF Init, LoadBuffer, Firm, Conf
<1>3. LoadPlace BY DEF Init, LoadPlace
<1>4. LoadFaults BY DEF Init, LoadFaults
<1>5. LoadWindow BY DEF Init, LoadWindow
<1>6. LoadFirmware BY DEF Init, LoadFirmware, Unwritten
<1>7. LoadRead BY DEF Init, LoadRead
<1>8. LoadConfig BY DEF Init, LoadConfig
<1>9. LoadToken BY DEF Init, LoadToken
<1> QED BY <1>1, <1>2, <1>3, <1>4, <1>5, <1>6, <1>7, <1>8, <1>9 DEF LoadIInv

LEMMA LoadZero == ASSUME LoadIInv, Zero PROVE LoadIInv'
<1> USE DEF LoadIInv, Zero, Sbmem, NoFault
<1>1. LoadType' BY ZeroWord, RamTop, FirstPartIs DEF LoadType
<1>2. LoadBuffer' BY ZeroWord, RamTop, LoadSizes DEF LoadBuffer, LoadType, From, Ends4, Firm, Conf
<1>3. LoadPlace' BY ZeroWord, RamTop DEF LoadPlace, From, Ends4
<1>4. LoadFaults' BY DEF LoadFaults
<1>5. LoadWindow' BY DEF LoadWindow
<1>6. LoadFirmware' BY DEF LoadFirmware, Unwritten
<1>7. LoadRead' BY DEF LoadRead
<1>8. LoadConfig' BY DEF LoadConfig
<1>9. LoadToken' BY DEF LoadToken
<1> QED BY <1>1, <1>2, <1>3, <1>4, <1>5, <1>6, <1>7, <1>8, <1>9

LEMMA LoadTokenStep == ASSUME LoadIInv, Token PROVE LoadIInv'
<1> USE DEF LoadIInv, Token, Sbmem, NoFault
<1>0. cfgRet \in Int /\ cfgRet >= -1 BY DEF LoadType
<1>1. LoadType' BY <1>0, TokenIs, RamTop, FirstPartIs DEF LoadType
<1>2. LoadBuffer'
  <2>1. Len(buf') = 4 /\ buf' = TokenBytes(cfgRet) BY <1>0, TokenIs
  <2>2. 4 <= Uploadsz /\ so' + sl' = RamSize BY LoadSizes
  <2>3. From' = RamSize - 4 /\ From' % 4 = 0 /\ From' + 4 <= RamSize BY LoadSizes, RamTop DEF From, Ends4
  <2> QED BY <2>1, <2>2, <2>3 DEF LoadBuffer, Firm, Conf
<1>3. LoadPlace' BY <1>0, TokenIs, RamTop DEF LoadPlace, From, Ends4
<1>4. LoadFaults' BY DEF LoadFaults
<1>5. LoadWindow' BY DEF LoadWindow
<1>6. LoadFirmware' BY DEF LoadFirmware
<1>7. LoadRead' BY DEF LoadRead
<1>8. LoadConfig' BY DEF LoadConfig, FwThere
<1>9. LoadToken' BY RamTop DEF LoadToken
<1> QED BY <1>1, <1>2, <1>3, <1>4, <1>5, <1>6, <1>7, <1>8, <1>9

LEMMA LoadWordWritten == ASSUME LoadIInv, WordWritten PROVE LoadIInv'
<1> USE DEF LoadIInv, WordWritten, NoFault, sbVars
<1>0. cfgRet \in Int /\ cfgRet >= -1 BY DEF LoadType
<1>1. LoadType' BY DEF LoadType, Phases
<1>2. LoadBuffer'
  <2>1. CASE phase = "zero"
    <3>1. off = 0 /\ 0 % 4 = 0 /\ 0 <= FwLen + 3 BY <2>1, LoadSizes DEF LoadBuffer
    <3> QED BY <2>1, <3>1 DEF LoadBuffer, Firm, Conf
  <2>2. CASE phase = "token" BY <2>2 DEF LoadBuffer, Firm, Conf
  <2> QED BY <2>1, <2>2
<1>3. LoadPlace' BY DEF LoadPlace
<1>4. LoadFaults' BY DEF LoadFaults
<1>5. LoadWindow' BY DEF LoadWindow
<1>6. LoadFirmware'
  <2>1. CASE phase = "zero"
    <3>1. off = 0 BY <2>1 DEF LoadBuffer
    <3>2. \A a \in Addresses : ~(a < 0) BY RamTop
    <3>3. Come' = 0 BY <2>1, <3>1 DEF Come
    <3>4. Cleared' => "zero" \notin failed BY DEF Cleared
    <3>5. "zero" \notin failed => Unwritten(0)' BY <2>1 DEF LoadFirmware, Unwritten
    <3> QED BY <2>1, <3>2, <3>3, <3>4, <3>5 DEF LoadFirmware
  <2>2. CASE phase = "token" BY <2>2 DEF LoadFirmware
  <2> QED BY <2>1, <2>2
<1>7. LoadRead' BY DEF LoadRead
<1>8. LoadConfig' BY DEF LoadConfig, FwThere
<1>9. LoadToken'
  <2>1. CASE phase = "zero" BY <2>1 DEF LoadToken
  <2>2. CASE phase = "token"
    <3>1. sp = 4 BY <1>0, <2>2, TokenIs DEF LoadPlace, LoadBuffer
    <3>2. \A a \in Addresses : a < RamSize - 4 + 4 BY LoadSizes, RamTop
    <3> QED BY <2>2, <3>1, <3>2 DEF LoadToken
  <2> QED BY <2>1, <2>2
<1> QED BY <1>1, <1>2, <1>3, <1>4, <1>5, <1>6, <1>7, <1>8, <1>9

LEMMA FaultStep ==
    ASSUME LoadType, LoadFaults, NoFault \/ Fault
    PROVE  /\ LoadFaults' /\ faults' \in Nat /\ failed' \in SUBSET Phases
           /\ failed \subseteq failed' /\ faults <= faults'
<1>1. faults \in Nat /\ failed \in SUBSET Phases /\ phase \in Phases BY DEF LoadType
<1>2. CASE NoFault BY <1>1, <1>2 DEF NoFault, LoadFaults
<1>3. CASE Fault
  <2>1. faults' = faults + 1 /\ failed' = failed \cup {phase} BY <1>3 DEF Fault
  <2>2. faults' \in Nat /\ failed' \in SUBSET Phases /\ failed \subseteq failed' /\ faults <= faults' BY <1>1, <2>1
  <2>3. LoadFaults'
    <3>1. faults' # 0 BY <1>1, <2>1
    <3>2. ASSUME faults' = 1 PROVE \A p, q \in failed' : p = q
      <4>1. faults = 0 BY <1>1, <2>1, <3>2
      <4>2. failed = {} BY <4>1 DEF LoadFaults
      <4>3. failed' = {phase} BY <2>1, <4>2
      <4> QED BY <4>3
    <3> QED BY <3>1, <3>2 DEF LoadFaults
  <2> QED BY <2>2, <2>3
<1> QED BY <1>2, <1>3

LEMMA LoadRefused == ASSUME LoadIInv, UploadRefused PROVE LoadIInv'
<1> USE DEF LoadIInv, UploadRefused, UploadFails, sbVars
<1>1. LoadFaults' /\ faults' \in Nat /\ failed' \in SUBSET Phases /\ failed \subseteq failed'
  BY FaultStep
<1>2. CASE phase = "fw"
  <2>1. phase' = "cfg" /\ fwRet' = -1 /\ cfgRet' = cfgRet /\ pc' = "next" /\ off' = 0 BY <1>2
  <2>2. LoadType' BY <1>1, <2>1 DEF LoadType, Phases
  <2>3. LoadBuffer' BY <1>2, <2>1 DEF LoadBuffer, Firm, Conf
  <2>4. LoadFirmware'
    <3>1. Cleared' => Cleared BY <1>1 DEF Cleared
    <3>2. Come = 0 BY DEF Come
    <3>3. Cleared => Unwritten(0) BY <1>2, <3>2 DEF LoadFirmware
    <3>4. Cleared' => \A b \in Addresses : b < RamSize - 4 => ram[b] = Old BY <3>1, <3>3, RamTop DEF Unwritten
    <3>5. Cleared' => Unwritten(FwLen + 3)' BY <3>4 DEF Unwritten
    <3> QED BY <2>1, <3>5 DEF LoadFirmware
  <2>5. LoadFaults' BY <1>1
  <2>6. LoadPlace' /\ LoadWindow' BY <2>1 DEF LoadPlace, LoadWindow
  <2>7. LoadRead' /\ LoadConfig' /\ LoadToken' BY <1>2, <2>1 DEF LoadRead, LoadConfig, LoadToken
  <2> QED BY <2>2, <2>3, <2>4, <2>5, <2>6, <2>7
<1>3. CASE phase = "cfg"
  <2>1. phase' = "token" /\ fwRet' = fwRet /\ cfgRet' = -1 /\ pc' = "next" /\ off' = 0 BY <1>3
  <2>2. LoadType' BY <1>1, <2>1 DEF LoadType, Phases
  <2>3. LoadBuffer' BY <1>3, <2>1 DEF LoadBuffer, Firm, Conf
  <2>4. LoadFirmware' BY <2>1 DEF LoadFirmware
  <2>5. LoadFaults' BY <1>1
  <2>6. LoadPlace' /\ LoadWindow' BY <2>1 DEF LoadPlace, LoadWindow
  <2>7. LoadRead' /\ LoadConfig' /\ LoadToken' BY <1>3, <2>1 DEF LoadRead, LoadConfig, LoadToken
  <2> QED BY <2>2, <2>3, <2>4, <2>5, <2>6, <2>7
<1> QED BY <1>2, <1>3

LEMMA LoadFwNext == ASSUME LoadIInv, FwNext PROVE LoadIInv'
<1> USE DEF LoadIInv, FwNext, NoFault
<1>1. off \in Nat /\ off < FwLen /\ off % 4 = 0 BY DEF LoadType, LoadBuffer, Firm
<1>2. PICK b \in Seq(Nat) : /\ b = FwBlock(off) /\ Len(b) % 4 = 0 /\ Len(b) > 0 /\ Len(b) <= Uploadsz
                            /\ off + Len(b) <= FwLen + 3
  BY <1>1, FwBlockIs
<1>3. Len(b) \in Nat BY <1>2, LenProperties
<1>4. buf' = b /\ n' = Len(b) BY <1>2
<1>5. so' = off /\ sp' = 0 /\ sl' = Len(b) /\ sn' = FirstPart(off) /\ pc' = "window" /\ ro' = ro /\ rl' = rl
  BY <1>2 DEF Sbmem
<1>6. off + Len(b) <= RamSize
  <2>1. PICK fl \in Nat, rs \in Nat, mc \in Nat : fl = FwLen /\ rs = RamSize /\ mc = MaxConfig /\ fl + mc + 12 <= rs
    BY LoadSizes
  <2> QED BY <1>1, <1>2, <1>3, <2>1
<1>7. LoadType' BY <1>1, <1>3, <1>4, <1>5, FirstPartIs DEF LoadType
<1>8. From' = off BY DEF From, Ends4
<1>9. LoadBuffer' BY <1>1, <1>2, <1>3, <1>4, <1>5, <1>6, <1>8 DEF LoadBuffer, Firm, Conf
<1>10. LoadPlace' BY <1>1, <1>2, <1>3, <1>4, <1>5, <1>8 DEF LoadPlace
<1>11. LoadFaults' /\ LoadWindow' BY <1>5 DEF LoadFaults, LoadWindow
<1>12. LoadFirmware'
  <2>1. Come' = Come BY <1>1, <1>5 DEF Come
  <2>2. /\ "fw" \notin failed /\ phase = "fw" => \A a \in Addresses : a < Come => ram[a] = FwByte(a)
        /\ phase = "fw" /\ Cleared => Unwritten(Come)
    BY DEF LoadFirmware
  <2>3. phase = "fw" /\ Cleared' => Unwritten(Come)' BY <2>1, <2>2 DEF Unwritten, Cleared
  <2>4. "fw" \notin failed' /\ phase = "fw" => \A a \in Addresses : a < Come' => ram'[a] = FwByte(a) BY <2>1, <2>2
  <2>5. CASE phase = "fw" BY <2>3, <2>4, <2>5 DEF LoadFirmware
  <2>6. CASE phase = "fwcmp" BY <2>6 DEF LoadFirmware, FwThere, Unwritten, Cleared
  <2> QED BY <2>5, <2>6
<1>13. LoadRead' BY <1>5 DEF LoadRead
<1>14. LoadConfig' /\ LoadToken' BY DEF LoadConfig, LoadToken
<1> QED BY <1>7, <1>9, <1>10, <1>11, <1>12, <1>13, <1>14

LEMMA LoadFwEnd == ASSUME LoadIInv, FwEnd PROVE LoadIInv'
<1> USE DEF LoadIInv, FwEnd, NoFault, sbVars
<1>1. off \in Nat /\ FwLen \in Nat /\ off >= FwLen /\ off <= FwLen + 3 BY LoadSizes DEF LoadType, LoadBuffer, Firm
<1>2. phase \in {"fw", "fwcmp"} /\ phase' = (IF phase = "fw" THEN "fwcmp" ELSE "cfg") OBVIOUS
<1>3. LoadType' BY <1>2 DEF LoadType, Phases
<1>4. LoadBuffer' BY <1>1, <1>2, LoadSizes DEF LoadBuffer, Firm, Conf
<1>5. LoadPlace' /\ LoadFaults' /\ LoadWindow' BY DEF LoadPlace, LoadFaults, LoadWindow
<1>6. CASE phase = "fw"
  <2>1. Come = off BY DEF Come
  <2>2. "fw" \notin failed => FwThere'
    <3>1. "fw" \notin failed => \A a \in Addresses : a < off => ram[a] = FwByte(a) BY <1>6, <2>1 DEF LoadFirmware
    <3>2. \A a \in Addresses : a < FwLen => a < off BY <1>1, RamTop
    <3> QED BY <3>1, <3>2 DEF FwThere, FwByte
  <2>3. Cleared => Unwritten(FwLen + 3)'
    <3>1. Cleared => \A b \in Addresses : off <= b /\ b < RamSize - 4 => ram[b] = Old
      BY <1>6, <2>1 DEF LoadFirmware, Unwritten
    <3>2. \A b \in Addresses : FwLen + 3 <= b => off <= b BY <1>1, RamTop
    <3>3. Cleared => \A b \in Addresses : FwLen + 3 <= b /\ b < RamSize - 4 => ram[b] = Old BY <3>1, <3>2
    <3> QED BY <3>3 DEF Unwritten
  <2>4. \A a \in Addresses : ~(a < 0) BY RamTop
  <2>5. Cleared' <=> Cleared BY DEF Cleared
  <2> QED BY <1>6, <2>2, <2>3, <2>4, <2>5, <1>3, <1>4, <1>5 DEF LoadFirmware, LoadRead, LoadConfig, LoadToken
<1>7. CASE phase = "fwcmp"
  <2>1. Cleared => Unwritten(FwLen + 3)' BY <1>7 DEF LoadFirmware, Unwritten
  <2>2. fwRet = 0 /\ faults <= 1 => FwThere'
    <3>1. SUFFICES ASSUME faults <= 1 PROVE FwThere BY DEF FwThere
    <3>2. "fw" \notin failed \/ "fwcmp" \notin failed
      <4>1. faults = 0 \/ faults = 1 BY <3>1 DEF LoadType
      <4> QED BY <4>1 DEF LoadFaults
    <3>3. "fwcmp" \notin failed => \A a \in Addresses : a < off /\ a < FwLen => ram[a] = a + 1
      BY <1>7 DEF LoadFirmware
    <3>4. \A a \in Addresses : a < FwLen => a < off BY <1>1, RamTop
    <3>5. "fwcmp" \notin failed => FwThere BY <3>3, <3>4 DEF FwThere
    <3> QED BY <1>7, <3>2, <3>5 DEF LoadFirmware
  <2>3. Cleared' <=> Cleared BY DEF Cleared
  <2> QED BY <1>7, <2>1, <2>2, <2>3, <1>3, <1>4, <1>5 DEF LoadFirmware, LoadRead, LoadConfig, LoadToken
<1> QED BY <1>6, <1>7

\* There is room for the configuration between the firmware and the last word.
LEMMA CfgRoom ==
    ASSUME NEW lb \in Nat, lb % 4 = 0, lb <= MaxConfig + 5
    PROVE  /\ RamSize - lb - 4 \in Nat /\ (RamSize - lb - 4) % 4 = 0 /\ RamSize - lb - 4 + lb = RamSize - 4
           /\ RamSize - lb - 4 >= FwLen + 3 /\ RamSize - lb - 4 + lb <= RamSize /\ lb <= Uploadsz
           /\ RamSize - lb - 4 = RamSize - 4 - lb
<1>1. PICK fl \in Nat, rs \in Nat, mc \in Nat, up \in Nat :
        /\ fl = FwLen /\ rs = RamSize /\ mc = MaxConfig /\ fl + mc + 12 <= rs /\ rs % 4 = 0
        /\ up = Uploadsz /\ mc + 5 <= up
  BY LoadSizes
<1>2. PICK o \in Int : o = rs - lb - 4 OBVIOUS
<1>3. lb <= mc + 5 BY <1>1
<1>4. o \in Nat /\ o + lb = rs - 4 /\ o >= fl + 3 /\ o + lb <= rs /\ lb <= up /\ o = rs - 4 - lb BY <1>1, <1>2, <1>3
<1>5. (rs - lb) % 4 = 0 /\ rs >= lb
  <2>1. rs >= lb BY <1>1, <1>3
  <2> QED BY <1>1, <2>1, Fours
<1>6. o % 4 = 0
  <2>1. rs - lb \in Nat /\ rs - lb >= 4 /\ 4 % 4 = 0 BY <1>2, <1>4
  <2>2. (rs - lb - 4) % 4 = 0 BY <1>5, <2>1, Fours
  <2> QED BY <1>2, <2>2
<1> QED BY <1>1, <1>2, <1>4, <1>6

LEMMA LoadCfgNext == ASSUME LoadIInv, CfgNext PROVE LoadIInv'
<1> USE DEF LoadIInv, CfgNext, NoFault
<1>1. PICK c \in Configs :
        /\ config' = c /\ buf' = condense(c) /\ n' = Len(condense(c)) /\ off' = RamSize - Len(condense(c)) - 4
        /\ Sbmem(Len(condense(c)), RamSize - Len(condense(c)) - 4)
  OBVIOUS
<1>2. PICK b \in Seq(Nat) : b = condense(c) /\ Len(b) \in Nat /\ Len(b) > 0 /\ Len(b) % 4 = 0 /\ Len(b) <= MaxConfig + 5
  BY CondenseIs
<1>3. PICK o : o = RamSize - Len(b) - 4 OBVIOUS
<1>4. /\ o \in Nat /\ o % 4 = 0 /\ o + Len(b) = RamSize - 4 /\ o >= FwLen + 3 /\ o + Len(b) <= RamSize
      /\ Len(b) <= Uploadsz /\ o = RamSize - 4 - Len(b)
  BY <1>2, <1>3, CfgRoom
<1>5. buf' = b /\ n' = Len(b) /\ off' = o BY <1>1, <1>2, <1>3
<1>6. so' = o /\ sp' = 0 /\ sl' = Len(b) /\ sn' = FirstPart(o) /\ pc' = "window" /\ ro' = ro /\ rl' = rl
  BY <1>1, <1>2, <1>3 DEF Sbmem
<1>7. LoadType' BY <1>2, <1>4, <1>5, <1>6, FirstPartIs DEF LoadType
<1>8. From' = o BY <1>5 DEF From, Ends4
<1>9. LoadBuffer' BY <1>1, <1>2, <1>4, <1>5, <1>6, <1>8 DEF LoadBuffer, Firm, Conf
<1>10. LoadPlace' BY <1>2, <1>4, <1>5, <1>6, <1>8 DEF LoadPlace
<1>11. LoadFaults' /\ LoadWindow' BY <1>6 DEF LoadFaults, LoadWindow
<1>12. LoadFirmware' /\ LoadRead' /\ LoadToken' BY <1>6 DEF LoadFirmware, LoadRead, LoadToken
<1>13. LoadConfig'
  <2>1. SUFFICES ASSUME fwRet = 0, faults <= 1 PROVE Sound' BY <1>6 DEF LoadConfig
  <2>2. FwThere' BY <2>1 DEF LoadFirmware, FwThere
  <2>3. CfgThere(sp)'
    <3>1. \A a \in Addresses : ~(o <= a /\ a < o + 0) BY <1>4, RamTop
    <3> QED BY <1>5, <1>6, <3>1 DEF CfgThere
  <2>4. Cleared' => Unwritten(so)'
    <3>1. Cleared' => \A a \in Addresses : FwLen + 3 <= a /\ a < RamSize - 4 => ram[a] = Old
      BY DEF LoadFirmware, Unwritten, Cleared
    <3>2. \A a \in Addresses : o <= a => FwLen + 3 <= a BY <1>4, RamTop, LoadSizes
    <3>3. Cleared' => \A a \in Addresses : o <= a /\ a < RamSize - 4 => ram'[a] = Old BY <3>1, <3>2
    <3> QED BY <1>6, <3>3 DEF Unwritten
  <2> QED BY <2>2, <2>3, <2>4 DEF Sound
<1> QED BY <1>7, <1>9, <1>10, <1>11, <1>12, <1>13

\* What a comparison that finds no difference says, byte by byte.
LEMMA Compared ==
    ASSUME NEW cb \in [1 .. Uploadsz -> Int], NEW bf \in Seq(Nat), Len(bf) <= Uploadsz, SubSeq(cb, 1, Len(bf)) = bf
    PROVE  \A k \in 1 .. Len(bf) : cb[k] = bf[k]
<1>1. PICK up \in Nat : up = Uploadsz BY LoadSizes
<1>2. PICK lb \in Nat : lb = Len(bf) /\ lb <= up BY <1>1, LenProperties
<1>3. cb \in Seq(Int) /\ Len(cb) = up BY <1>1, FcnIsSeq
<1>4. \A k \in 1 .. lb : SubSeq(cb, 1, lb)[k] = cb[k]
  <2>1. TAKE k \in 1 .. lb
  <2>2. 1 \in 1 .. up + 1 /\ lb \in 0 .. up BY <1>2
  <2>3. SubSeq(cb, 1, lb)[k] = cb[1 + k - 1] BY <1>2, <1>3, <2>2
  <2> QED BY <2>3
<1> QED BY <1>2, <1>4

LEMMA LoadFwMoved == ASSUME LoadIInv, FwMoved PROVE LoadIInv'
<1> USE DEF LoadIInv, FwMoved, NoFault, sbVars
<1>1. /\ phase \in Firm /\ off \in Nat /\ off % 4 = 0 /\ off < FwLen /\ buf = FwBlock(off) /\ buf \in Seq(Nat)
      /\ n = Len(buf) /\ n \in Nat /\ sp = n /\ Len(buf) <= Uploadsz
  BY DEF LoadType, LoadBuffer, LoadPlace, Firm
<1>2. /\ n % 4 = 0 /\ n > 0 /\ off + n <= FwLen + 3
      /\ \A k \in 1 .. n : buf[k] = FwByte(off + k - 1)
  BY <1>1, FwBlockIs
<1>3. off' = off + n /\ off' \in Nat /\ off' % 4 = 0 /\ pc' = "next" /\ phase' = phase
  <2>1. (off + n) % 4 = 0 BY <1>1, <1>2, Fours
  <2> QED BY <1>1, <2>1
<1>4. LoadType' BY <1>3 DEF LoadType
<1>5. LoadBuffer' BY <1>1, <1>2, <1>3 DEF LoadBuffer, Firm, Conf
<1>6. LoadPlace' /\ LoadFaults' /\ LoadWindow' BY <1>3 DEF LoadPlace, LoadFaults, LoadWindow
<1>7. LoadRead' /\ LoadConfig' /\ LoadToken' BY <1>1, <1>3 DEF LoadRead, LoadConfig, LoadToken, Firm
<1>8. CASE phase = "fw"
  <2>1. Come' = off + n /\ Come = off + n BY <1>1, <1>3 DEF Come
  <2>2. Cleared' => Unwritten(Come)' BY <1>8, <2>1 DEF LoadFirmware, Unwritten, Cleared
  <2>3. "fw" \notin failed' => \A a \in Addresses : a < Come' => ram'[a] = FwByte(a) BY <1>8, <2>1 DEF LoadFirmware
  <2>4. LoadFirmware' BY <1>3, <1>8, <2>2, <2>3 DEF LoadFirmware
  <2> QED BY <1>4, <1>5, <1>6, <1>7, <2>4
<1>9. CASE phase = "fwcmp"
  <2>1. ASSUME "fwcmp" \notin failed, NEW a \in Addresses, a < off + n, a < FwLen PROVE ram[a] = a + 1
    <3>1. a \in Nat BY RamTop
    <3>2. CASE a < off BY <1>9, <2>1, <3>2 DEF LoadFirmware
    <3>3. CASE ~(a < off)
      <4>1. PICK k \in 1 .. n : a = off + k - 1
        <5>1. a - off + 1 \in 1 .. n /\ a = off + (a - off + 1) - 1 BY <1>1, <2>1, <3>1, <3>3
        <5> QED BY <5>1
      <4>2. cbuf[k] = ram[off + k - 1] BY <1>1, <1>9, <2>1 DEF LoadRead
      <4>3. cbuf[k] = buf[k] BY <1>1, <1>9, Compared DEF LoadType
      <4>4. buf[k] = a + 1 BY <1>2, <2>1, <4>1 DEF FwByte
      <4> QED BY <4>1, <4>2, <4>3, <4>4
    <3> QED BY <3>2, <3>3
  <2>2. "fwcmp" \notin failed' => \A a \in Addresses : a < off' /\ a < FwLen => ram'[a] = a + 1 BY <1>3, <2>1
  <2>3. Cleared' => Unwritten(FwLen + 3)' BY <1>9 DEF LoadFirmware, Unwritten, Cleared
  <2>4. "fw" \notin failed' => FwThere' BY <1>9 DEF LoadFirmware, FwThere
  <2>5. LoadFirmware' BY <1>3, <1>9, <2>2, <2>3, <2>4 DEF LoadFirmware
  <2> QED BY <1>4, <1>5, <1>6, <1>7, <2>5
<1> QED BY <1>1, <1>8, <1>9 DEF Firm

LEMMA LoadCfgWritten == ASSUME LoadIInv, CfgWritten PROVE LoadIInv'
<1> USE DEF LoadIInv, CfgWritten, NoFault
<1>1. /\ off \in Nat /\ off % 4 = 0 /\ n = Len(buf) /\ n \in Nat /\ n > 0 /\ n % 4 = 0 /\ sp = n /\ so = off + n
      /\ off + n <= RamSize /\ From = off /\ buf = condense(config) /\ config \in Configs /\ off = RamSize - 4 - n
  BY DEF LoadType, LoadBuffer, LoadPlace, Conf, From, Ends4
<1>2. so' = off /\ sp' = 0 /\ sl' = n /\ sn' = FirstPart(off) /\ pc' = "window" /\ ro' = ro /\ rl' = rl
  BY <1>1 DEF Sbmem
<1>3. LoadType' BY <1>1, <1>2, FirstPartIs DEF LoadType, Phases
<1>4. From' = off BY DEF From, Ends4
<1>5. LoadBuffer' BY <1>1, <1>2, <1>4 DEF LoadBuffer, Firm, Conf
<1>6. LoadPlace'
  <2>1. sl' > 0 /\ sp' + sl' = Len(buf') /\ so' = From' + sp' /\ sp' % 4 = 0
    <3>1. n \in Nat /\ off \in Nat /\ n > 0 BY <1>1
    <3>2. 0 + n = n /\ off = off + 0 /\ 0 % 4 = 0 BY ONLY <3>1
    <3>3. buf' = buf /\ n = Len(buf) BY <1>1
    <3> QED BY <1>2, <1>4, <3>1, <3>2, <3>3
  <2> QED BY <1>2, <2>1 DEF LoadPlace
<1>7. LoadFaults' /\ LoadWindow' BY <1>2 DEF LoadFaults, LoadWindow
<1>8. LoadFirmware' /\ LoadRead' /\ LoadToken' BY <1>2 DEF LoadFirmware, LoadRead, LoadToken
<1>9. LoadConfig'
  <2>1. SUFFICES ASSUME fwRet = 0, faults <= 1
                 PROVE  \/ FwThere' /\ CfgThere(n)'
                        \/ "cfg" \in failed /\ \E a \in Addresses : off <= a /\ a < off + n /\ ram[a] = Old
    BY DEF LoadConfig
  <2>2. Sound \/ Missing BY <2>1 DEF LoadConfig
  <2>3. Sound => FwThere' /\ CfgThere(n)' BY <1>1 DEF Sound, FwThere, CfgThere
  <2>4. Missing => "cfg" \in failed /\ \E a \in Addresses : off <= a /\ a < off + n /\ ram[a] = Old
    BY <1>1 DEF Missing
  <2> QED BY <2>2, <2>3, <2>4
<1> QED BY <1>3, <1>5, <1>6, <1>7, <1>8, <1>9

LEMMA LoadCfgCompared == ASSUME LoadIInv, CfgCompared PROVE LoadIInv'
<1> USE DEF LoadIInv, CfgCompared, NoFault, sbVars
<1>1. /\ off \in Nat /\ buf \in Seq(Nat) /\ n = Len(buf) /\ n \in Nat /\ n > 0 /\ sp = n /\ Len(buf) <= Uploadsz
      /\ buf = condense(config) /\ config \in Configs /\ off = RamSize - 4 - n /\ off + n = RamSize - 4
  <2>1. /\ off \in Nat /\ buf \in Seq(Nat) /\ n = Len(buf) /\ n \in Nat /\ n > 0 /\ sp = n /\ Len(buf) <= Uploadsz
        /\ buf = condense(config) /\ config \in Configs /\ off = RamSize - 4 - n
    BY DEF LoadType, LoadBuffer, LoadPlace, Conf
  <2> QED BY <2>1, LoadSizes
<1>2. LoadType'
  <2>1. cfgRet' \in Int /\ cfgRet' >= -1 /\ phase' \in Phases BY <1>1 DEF Phases
  <2> QED BY <2>1 DEF LoadType
<1>3. LoadBuffer' BY <1>1 DEF LoadBuffer, Firm, Conf
<1>4. LoadPlace' /\ LoadFaults' /\ LoadWindow' BY DEF LoadPlace, LoadFaults, LoadWindow
<1>5. LoadFirmware' /\ LoadRead' /\ LoadToken' BY DEF LoadFirmware, LoadRead, LoadToken
<1>6. LoadConfig'
  <2>1. SUFFICES ASSUME fwRet = 0, faults <= 1
                 PROVE  /\ FwThere
                        /\ \A a \in Addresses : RamSize - 4 - n <= a /\ a < RamSize - 4 =>
                             ram[a] = condense(config)[a - (RamSize - 4 - n) + 1]
    BY DEF LoadConfig, FwThere
  <2>2. CASE FwThere /\ CfgThere(n) BY <1>1, <2>2 DEF CfgThere
  <2>3. CASE "cfg" \in failed /\ \E a \in Addresses : off <= a /\ a < off + n /\ ram[a] = Old
    <3>1. "cfgcmp" \notin failed
      <4>1. faults = 0 \/ faults = 1 BY <2>1 DEF LoadType
      <4> QED BY <2>3, <4>1 DEF LoadFaults
    <3>2. PICK a \in Addresses : off <= a /\ a < off + n /\ ram[a] = Old BY <2>3
    <3>3. a \in Nat BY RamTop
    <3>4. PICK k \in 1 .. n : a = off + k - 1
      <4>1. off \in Nat /\ n \in Nat /\ off <= a /\ a < off + n BY <1>1, <3>2
      <4>2. a - off + 1 \in 1 .. n /\ a = off + (a - off + 1) - 1 BY ONLY <3>3, <4>1
      <4> QED BY <4>2
    <3>5. cbuf[k] = ram[off + k - 1] BY <1>1, <3>1 DEF LoadRead
    <3>6. cbuf[k] = buf[k] BY <1>1, Compared DEF LoadType
    <3>7. buf[k] \in Nat BY <1>1
    <3>8. Old = buf[k] BY <3>2, <3>4, <3>5, <3>6
    <3>9. Old \notin Nat BY DEF Old
    <3> QED BY <3>7, <3>8, <3>9
  <2> QED BY <2>1, <2>2, <2>3 DEF LoadConfig
<1> QED BY <1>2, <1>3, <1>4, <1>5, <1>6

LEMMA LoadCompareFails == ASSUME LoadIInv, CompareFails PROVE LoadIInv'
<1> USE DEF LoadIInv, CompareFails, UploadFails, NoFault, sbVars
<1>1. CASE phase = "fwcmp"
  <2>1. phase' = "cfg" /\ fwRet' = -1 /\ cfgRet' = cfgRet /\ pc' = "next" /\ off' = 0 BY <1>1
  <2>2. LoadType' BY <2>1 DEF LoadType, Phases
  <2>3. LoadBuffer' BY <1>1, <2>1 DEF LoadBuffer, Firm, Conf
  <2>4. Cleared' => Unwritten(FwLen + 3)' BY <1>1 DEF LoadFirmware, Unwritten, Cleared
  <2>5. LoadFirmware' BY <2>1, <2>4 DEF LoadFirmware
  <2>6. LoadPlace' /\ LoadFaults' /\ LoadWindow' BY <2>1 DEF LoadPlace, LoadFaults, LoadWindow
  <2>7. LoadRead' /\ LoadConfig' /\ LoadToken' BY <1>1, <2>1 DEF LoadRead, LoadConfig, LoadToken
  <2> QED BY <2>2, <2>3, <2>5, <2>6, <2>7
<1>2. CASE phase = "cfgcmp"
  <2>1. phase' = "token" /\ fwRet' = fwRet /\ cfgRet' = -1 /\ pc' = "next" /\ off' = 0 BY <1>2
  <2>2. LoadType' BY <2>1 DEF LoadType, Phases
  <2>3. LoadBuffer' BY <1>2, <2>1 DEF LoadBuffer, Firm, Conf
  <2>4. LoadFirmware' BY <2>1 DEF LoadFirmware
  <2>5. LoadPlace' /\ LoadFaults' /\ LoadWindow' BY <2>1 DEF LoadPlace, LoadFaults, LoadWindow
  <2>6. LoadRead' /\ LoadConfig' /\ LoadToken' BY <1>2, <2>1 DEF LoadRead, LoadConfig, LoadToken
  <2> QED BY <2>2, <2>3, <2>4, <2>5, <2>6
<1> QED BY <1>1, <1>2

\* The window that sbwindow asks for.
LEMMA WindowOf ==
    ASSUME NEW o \in Nat, o < RamSize
    PROVE  o - (o % Sbwsize) \in Addresses /\ (o - (o % Sbwsize)) % Sbwsize = 0
<1>1. PICK w \in Nat \ {0} : w = Sbwsize BY LoadSizes
<1>2. PICK r \in Nat : r = o % w /\ r <= o BY Rem
<1>3. o - r \in Nat /\ (o - r) % w = 0 BY <1>2, InWindow
<1>4. PICK rs \in Nat : rs = RamSize BY LoadSizes
<1>5. o - r \in 0 .. rs - 1 BY <1>2, <1>3, <1>4
<1> QED BY <1>1, <1>2, <1>3, <1>4, <1>5, RamTop

LEMMA LoadWindowStep == ASSUME LoadIInv, Window PROVE LoadIInv'
<1> USE DEF LoadIInv, Window
<1>1. /\ so \in Nat /\ sp \in Nat /\ sl \in Nat /\ sn \in Nat /\ sl > 0 /\ so + sl <= RamSize /\ sn = FirstPart(so)
      /\ sp + sl = Len(buf) /\ Len(buf) % 4 = 0 /\ sp % 4 = 0 /\ so = From + sp /\ From % 4 = 0 /\ phase # "done"
  BY DEF LoadType, LoadBuffer, LoadPlace
<1>2. so % 4 = 0 /\ sl % 4 = 0 /\ so < RamSize
  <2>1. From \in Nat BY RamTop DEF LoadType, From
  <2>2. (From + sp) % 4 = 0 BY <1>1, <2>1, Fours
  <2>3. Len(buf) \in Nat /\ sl = Len(buf) - sp /\ Len(buf) >= sp BY <1>1
  <2>4. (Len(buf) - sp) % 4 = 0 BY <1>1, <2>3, Fours
  <2>5. so < RamSize
    <3>1. so \in Nat /\ sl \in Nat /\ sl > 0 /\ so + sl <= RamSize /\ RamSize \in Nat BY <1>1, LoadSizes
    <3> QED BY ONLY <3>1
  <2>6. so % 4 = 0 BY <1>1, <2>2
  <2>7. sl % 4 = 0 BY <2>3, <2>4
  <2> QED BY <2>5, <2>6, <2>7
<1>3. PICK w \in Nat \ {0} : w = Sbwsize /\ w % 4 = 0 BY LoadSizes
<1>4. PICK r \in Nat : r = so % w /\ r < w BY <1>1, Rem
<1>5. sn > 0 /\ sn % 4 = 0 /\ sn + r = w BY <1>1, <1>2, <1>3, <1>4, FirstPartIs
<1>6. ro' = r /\ rl' = (IF sn <= sl THEN sn ELSE sl) /\ pc' = "rounds"
  <2>1. Min({sn, sl}) = IF sn <= sl THEN sn ELSE sl BY <1>1, MinTwo
  <2> QED BY <1>3, <1>4, <2>1
<1>7. /\ rl' \in Nat /\ rl' > 0 /\ rl' % 4 = 0 /\ rl' <= sl /\ ro' + rl' <= w /\ (rl' < sl => ro' + rl' = w)
  <2>1. PICK m \in Nat : m = rl' /\ m = (IF sn <= sl THEN sn ELSE sl) BY <1>1, <1>6
  <2>2. CASE sn <= sl
    <3>1. m = sn BY <2>1, <2>2
    <3>2. r + sn <= w /\ r + sn = w
      <4>1. sn \in Nat /\ sn + r = w BY <1>1, <1>5
      <4>2. r + sn = sn + r /\ w <= w BY ONLY <4>1, r \in Nat, w \in Nat \ {0}
      <4> QED BY <4>1, <4>2
    <3> QED BY <1>1, <1>5, <1>6, <2>1, <2>2, <3>1, <3>2
  <2>3. CASE ~(sn <= sl)
    <3>1. m = sl BY <2>1, <2>3
    <3>2. r + sl <= w /\ ~(sl < sl) BY <1>1, <1>3, <1>4, <1>5, <2>3
    <3> QED BY <1>1, <1>2, <1>6, <2>1, <3>1, <3>2
  <2> QED BY <2>2, <2>3
<1>8. LoadFaults' /\ faults' \in Nat /\ failed' \in SUBSET Phases /\ failed \subseteq failed' /\ faults <= faults'
  BY FaultStep
<1>9. window' \in Addresses /\ window' % Sbwsize = 0 BY <1>1, <1>2, WindowOf
<1>10. phase \notin failed' => RightWindow' BY DEF Fault, RightWindow
<1>11. LoadType' BY <1>4, <1>6, <1>7, <1>8, <1>9 DEF LoadType
<1>12. From' = From BY DEF From
<1>13. LoadBuffer'
  <2>1. so' + sl' <= RamSize /\ pc' # "next" BY <1>1, <1>6
  <2> QED BY <1>12, <2>1 DEF LoadBuffer
<1>14. LoadPlace' BY <1>1, <1>3, <1>4, <1>6, <1>7, <1>12 DEF LoadPlace
<1>15. LoadWindow' BY <1>10 DEF LoadWindow
<1>16. LoadFirmware'
  <2>1. Come' = Come BY <1>6 DEF Come
  <2>2. Cleared' => Cleared BY <1>8 DEF Cleared
  <2>3. Unwritten(Come)' <=> Unwritten(Come) BY <2>1 DEF Unwritten
  <2>4. Unwritten(0)' <=> Unwritten(0) BY DEF Unwritten
  <2>5. Unwritten(FwLen + 3)' <=> Unwritten(FwLen + 3) BY DEF Unwritten
  <2>6. FwThere' <=> FwThere BY DEF FwThere
  <2> QED BY <1>6, <1>8, <2>1, <2>2, <2>3, <2>4, <2>5, <2>6 DEF LoadFirmware
<1>17. LoadRead' BY <1>6, <1>8 DEF LoadRead
<1>18. LoadToken' BY <1>6, <1>8 DEF LoadToken
<1>19. LoadConfig'
  <2>1. faults \in Nat BY DEF LoadType
  <2>2. ASSUME phase = "cfg", fwRet = 0, faults' <= 1
        PROVE  \/ Sound' /\ (RightWindow' \/ "cfg" \in failed')
               \/ Missing'
    <3>1. faults <= 1 BY <1>8, <2>1, <2>2
    <3>2. Sound \/ Missing BY <2>2, <3>1 DEF LoadConfig
    <3>3. ASSUME Sound PROVE Sound' /\ (RightWindow' \/ "cfg" \in failed')
      <4>1. Cleared' => Cleared BY <1>8 DEF Cleared
      <4>2. FwThere' /\ CfgThere(sp)' BY <3>3 DEF Sound, FwThere, CfgThere
      <4>3. Unwritten(so)' <=> Unwritten(so) BY DEF Unwritten
      <4> QED BY <1>10, <2>2, <3>3, <4>1, <4>2, <4>3 DEF Sound
    <3>4. ASSUME Missing PROVE Missing'
      <4>1. "cfg" \in failed BY <3>4 DEF Missing
      <4>2. faults # 0 BY <4>1 DEF LoadFaults
      <4>3. ~Fault BY <2>1, <2>2, <4>2 DEF Fault
      <4>4. RightWindow' BY <4>3 DEF RightWindow
      <4>5. PICK a \in Addresses : off <= a /\ a < so /\ ram[a] = Old BY <3>4 DEF Missing
      <4> QED BY <1>8, <4>1, <4>4, <4>5 DEF Missing
    <3> QED BY <3>2, <3>3, <3>4
  <2>3. ASSUME phase = "cfgcmp", fwRet = 0, faults' <= 1
        PROVE  \/ FwThere' /\ CfgThere(n)'
               \/ "cfg" \in failed' /\ \E a \in Addresses : off <= a /\ a < off + n /\ ram[a] = Old
    <3>1. faults <= 1 BY <1>8, <2>1, <2>3
    <3>2. \/ FwThere /\ CfgThere(n)
          \/ "cfg" \in failed /\ \E a \in Addresses : off <= a /\ a < off + n /\ ram[a] = Old
      BY <2>3, <3>1 DEF LoadConfig
    <3>3. (FwThere /\ CfgThere(n)) => (FwThere' /\ CfgThere(n)') BY DEF FwThere, CfgThere
    <3> QED BY <1>8, <3>2, <3>3
  <2>4. ASSUME phase = "token", fwRet = 0, cfgRet > 0, faults' <= 1, "token" \notin failed'
        PROVE  /\ FwThere'
               /\ \A a \in Addresses : RamSize - 4 - cfgRet <= a /\ a < RamSize - 4 =>
                    ram[a] = condense(config)[a - (RamSize - 4 - cfgRet) + 1]
    <3>1. faults <= 1 /\ "token" \notin failed BY <1>8, <2>1, <2>4
    <3> QED BY <2>4, <3>1 DEF LoadConfig, FwThere
  <2> QED BY <1>1, <1>6, <2>2, <2>3, <2>4 DEF LoadConfig
<1> QED BY <1>8, <1>11, <1>13, <1>14, <1>15, <1>16, <1>17, <1>18, <1>19

\* A round stays inside its window, and moves what it should.
LEMMA RoundFacts ==
    ASSUME LoadIInv, pc = "rounds"
    PROVE  /\ phase \in Phases \ {"done"} /\ window \in Nat /\ window % Sbwsize = 0 /\ window + Sbwsize <= RamSize
           /\ so \in Nat /\ sp \in Nat /\ sl \in Nat /\ ro \in Nat /\ rl \in Nat /\ n \in Nat /\ off \in Nat /\ From \in Nat
           /\ buf \in Seq(Nat) /\ Len(buf) \in Nat /\ Len(buf) <= Uploadsz /\ Len(buf) % 4 = 0 /\ From + Len(buf) <= RamSize
           /\ sl > 0 /\ sp + sl = Len(buf) /\ so = From + sp /\ sp % 4 = 0 /\ so + sl <= RamSize
           /\ ro = so % Sbwsize /\ rl > 0 /\ rl % 4 = 0 /\ rl <= sl /\ ro + rl <= Sbwsize
           /\ rl < sl => ro + rl = Sbwsize
           /\ (phase \notin failed => window + ro = so) /\ (RightWindow => window + ro = so)
           /\ so - ro \in Nat /\ (so - ro) % Sbwsize = 0
<1> USE DEF LoadIInv
<1>1. /\ phase \in Phases /\ window \in Addresses /\ window % Sbwsize = 0
      /\ so \in Nat /\ sp \in Nat /\ sl \in Nat /\ ro \in Nat /\ rl \in Nat /\ n \in Nat /\ off \in Nat
      /\ buf \in Seq(Nat)
  BY DEF LoadType
<1>2. /\ phase # "done" /\ sl > 0 /\ sp + sl = Len(buf) /\ so = From + sp /\ sp % 4 = 0
      /\ ro = so % Sbwsize /\ rl > 0 /\ rl % 4 = 0 /\ rl <= sl /\ ro + rl <= Sbwsize
      /\ rl < sl => ro + rl = Sbwsize
  BY DEF LoadPlace
<1>3. Len(buf) <= Uploadsz /\ so + sl <= RamSize /\ Len(buf) % 4 = 0 /\ From + Len(buf) <= RamSize
  BY <1>2 DEF LoadBuffer
<1>4. From \in Nat BY <1>1, RamTop DEF From
<1>5. Len(buf) \in Nat BY <1>1, LenProperties
<1>6. window \in Nat /\ window < RamSize BY <1>1, RamTop, LoadSizes
<1>7. window + Sbwsize <= RamSize
  <2>1. PICK w \in Nat \ {0} : w = Sbwsize BY LoadSizes
  <2>2. PICK rs \in Nat : rs = RamSize /\ rs % w = 0 BY <2>1, LoadSizes
  <2>3. window # rs /\ ~(rs + w <= window) BY <1>6, <2>1, <2>2
  <2>4. window % w = 0 BY <1>1, <2>1
  <2>5. window + w <= rs BY <1>6, <2>2, <2>3, <2>4, OtherWindow
  <2> QED BY <2>1, <2>2, <2>5
<1>8. RightWindow => window + ro = so BY <1>1, <1>2, <1>6 DEF RightWindow
<1>9. phase \notin failed => RightWindow BY DEF LoadWindow
<1>10. so - ro \in Nat /\ (so - ro) % Sbwsize = 0 BY <1>1, <1>2, LoadSizes, InWindow
<1> QED BY <1>1, <1>2, <1>3, <1>4, <1>5, <1>6, <1>7, <1>8, <1>9, <1>10

LEMMA AtIs ==
    ASSUME LoadIInv, pc = "rounds", NEW j \in Nat, j < rl PROVE At(ro + j) = window + ro + j
<1>1. ro \in Nat /\ rl \in Nat /\ ro + rl <= Sbwsize /\ window \in Nat BY RoundFacts
<1>2. PICK w \in Nat \ {0} : w = Sbwsize BY LoadSizes
<1>3. ro + j \in Nat /\ ro + j < w BY <1>1, <1>2
<1>4. (ro + j) % w = ro + j BY <1>3, RemSmall
<1>5. window + (ro + j) = window + ro + j BY <1>1
<1> QED BY <1>2, <1>4, <1>5 DEF At


LEMMA MovedWrites ==
    ASSUME LoadIInv, pc = "rounds", NEW k \in Nat, k <= rl, Moved(k), phase \in Writing
    PROVE  /\ cbuf' = cbuf /\ ram' \in [Addresses -> Int]
           /\ \A a \in Addresses : ram'[a] = IF window + ro <= a /\ a < window + ro + k
                                               THEN buf[sp + 1 + (a - (window + ro))] ELSE ram[a]
<1>1. /\ ro \in Nat /\ rl \in Nat /\ window \in Nat /\ sp \in Nat /\ sl \in Nat /\ rl <= sl /\ sp + sl = Len(buf)
      /\ buf \in Seq(Nat) /\ Len(buf) \in Nat
  BY RoundFacts
<1>2. PICK x \in Nat : x = window + ro BY <1>1
<1>3. \A j \in 0 .. k - 1 : At(ro + j) = x + j
  <2> TAKE j \in 0 .. k - 1
  <2>1. j \in Nat /\ j < rl BY <1>1
  <2> QED BY <1>2, <2>1, AtIs
<1>4. /\ cbuf' = cbuf
      /\ ram' = [a \in Addresses |-> IF \E j \in 0 .. k - 1 : a = At(ro + j)
                                       THEN buf[sp + 1 + (CHOOSE j \in 0 .. k - 1 : a = At(ro + j))] ELSE ram[a]]
  BY DEF Moved
<1>5. ram \in [Addresses -> Int] BY DEF LoadIInv, LoadType
<1>6. ASSUME NEW a \in Addresses
      PROVE  ram'[a] = (IF x <= a /\ a < x + k THEN buf[sp + 1 + (a - x)] ELSE ram[a]) /\ ram'[a] \in Int
  <2>1. a \in Nat BY RamTop
  <2>2. ram'[a] = IF \E j \in 0 .. k - 1 : a = At(ro + j)
                    THEN buf[sp + 1 + (CHOOSE j \in 0 .. k - 1 : a = At(ro + j))] ELSE ram[a]
    BY <1>4
  <2>3. CASE x <= a /\ a < x + k
    <3>1. PICK d \in 0 .. k - 1 : d = a - x BY <2>1, <2>3
    <3>2. a = At(ro + d) BY <1>3, <2>1, <3>1
    <3>3. \A j \in 0 .. k - 1 : a = At(ro + j) => j = d BY <1>3, <2>1, <3>1
    <3>4. (CHOOSE j \in 0 .. k - 1 : a = At(ro + j)) = d BY <3>2, <3>3
    <3>5. ram'[a] = buf[sp + 1 + d] BY <2>2, <3>2, <3>4
    <3>6. sp + 1 + d \in 1 .. Len(buf) BY <1>1, <3>1
    <3>7. buf[sp + 1 + d] \in Nat BY <1>1, <3>6
    <3> QED BY <2>3, <3>1, <3>5, <3>7
  <2>4. CASE ~(x <= a /\ a < x + k)
    <3>1. ~ \E j \in 0 .. k - 1 : a = At(ro + j)
      <4>1. \A j \in 0 .. k - 1 : a # x + j BY <2>1, <2>4
      <4> QED BY <1>3, <4>1
    <3>2. ram'[a] = ram[a] BY <2>2, <3>1
    <3> QED BY <1>5, <2>4, <3>2
  <2> QED BY <2>3, <2>4
<1>7. ram' \in [Addresses -> Int]
  <2>1. ram' = [a \in Addresses |-> ram'[a]] BY <1>4
  <2> QED BY <1>6, <2>1
<1> QED BY <1>2, <1>4, <1>6, <1>7

LEMMA MovedReads ==
    ASSUME LoadIInv, pc = "rounds", NEW k \in Nat, k <= rl, Moved(k), phase \notin Writing
    PROVE  /\ ram' = ram /\ cbuf' \in [1 .. Uploadsz -> Int]
           /\ \A j \in 1 .. Uploadsz : cbuf'[j] = IF sp + 1 <= j /\ j <= sp + k
                                                    THEN ram[window + ro + (j - sp - 1)] ELSE cbuf[j]
<1>1. /\ ro \in Nat /\ rl \in Nat /\ window \in Nat /\ sp \in Nat /\ ro + rl <= Sbwsize /\ window + Sbwsize <= RamSize
  BY RoundFacts
<1>2. cbuf \in [1 .. Uploadsz -> Int] /\ ram \in [Addresses -> Int] BY DEF LoadIInv, LoadType
<1>3. /\ ram' = ram
      /\ cbuf' = [j \in 1 .. Uploadsz |-> IF j \in (sp + 1) .. (sp + k) THEN ram[At(ro + j - sp - 1)] ELSE cbuf[j]]
  BY <1>2 DEF Moved
<1>4. ASSUME NEW j \in 1 .. Uploadsz
      PROVE  cbuf'[j] = (IF sp + 1 <= j /\ j <= sp + k THEN ram[window + ro + (j - sp - 1)] ELSE cbuf[j])
             /\ cbuf'[j] \in Int
  <2>1. cbuf'[j] = IF j \in (sp + 1) .. (sp + k) THEN ram[At(ro + j - sp - 1)] ELSE cbuf[j] BY <1>3
  <2>2. j \in Nat /\ (j \in (sp + 1) .. (sp + k) <=> (sp + 1 <= j /\ j <= sp + k)) BY <1>1, LoadSizes
  <2>3. CASE sp + 1 <= j /\ j <= sp + k
    <3>1. PICK d \in Nat : d = j - sp - 1 /\ d < rl /\ ro + j - sp - 1 = ro + d BY <1>1, <2>2, <2>3
    <3>2. At(ro + d) = window + ro + d BY <3>1, AtIs
    <3>3. window + ro + d \in Addresses
      <4>1. PICK rs \in Nat, w \in Nat : rs = RamSize /\ w = Sbwsize BY LoadSizes
      <4>2. window + ro + d \in 0 .. rs - 1 BY <1>1, <3>1, <4>1
      <4> QED BY <4>1, <4>2, RamTop
    <3>4. cbuf'[j] = ram[window + ro + d] BY <2>1, <2>2, <2>3, <3>1, <3>2
    <3> QED BY <1>2, <2>3, <3>1, <3>3, <3>4
  <2>4. CASE ~(sp + 1 <= j /\ j <= sp + k) BY <1>2, <2>1, <2>2, <2>4
  <2> QED BY <2>3, <2>4
<1>5. cbuf' \in [1 .. Uploadsz -> Int]
  <2>1. cbuf' = [j \in 1 .. Uploadsz |-> cbuf'[j]] BY <1>3
  <2> QED BY <1>4, <2>1
<1> QED BY <1>3, <1>4, <1>5

LEMMA RoundControl ==
    ASSUME LoadIInv, Round
    PROVE  \E m \in Nat :
             /\ m = RoundBytes(rl) /\ m > 0 /\ m <= rl /\ so' = so + m /\ sp' = sp + m
             /\ LoadPlace' /\ LoadBuffer' /\ From' = From /\ pc' \in {"rounds", "window", "moved"}
             /\ so' \in Nat /\ sp' \in Nat /\ sl' \in Nat /\ sn' \in Nat /\ ro' \in Nat /\ rl' \in Nat
             /\ pc' = "rounds" => so' - (so' % Sbwsize) = so - ro
<1>0. pc = "rounds" BY DEF Round
<1>1. /\ sp \in Nat /\ so \in Nat /\ sl \in Nat /\ ro \in Nat /\ rl \in Nat /\ Len(buf) \in Nat /\ From \in Nat
      /\ rl > 0 /\ rl % 4 = 0 /\ rl <= sl /\ sp + sl = Len(buf) /\ so = From + sp /\ sp % 4 = 0 /\ so + sl <= RamSize
      /\ ro = so % Sbwsize /\ ro + rl <= Sbwsize /\ (rl < sl => ro + rl = Sbwsize) /\ phase # "done"
  BY <1>0, RoundFacts
<1>2. PICK m \in Nat : m = RoundBytes(rl) /\ m > 0 /\ m <= rl /\ m % 4 = 0 BY <1>1, RoundWords
<1>3. /\ ro' = ro + m /\ rl' = rl - m /\ so' = so + m /\ sp' = sp + m /\ sl' = sl - m
      /\ rl > m => pc' = pc /\ sn' = sn
      /\ ~(rl > m) => sn' = Sbwsize /\ pc' = IF sl > m THEN "window" ELSE "moved"
  BY <1>2 DEF Round
<1>4. From' = From BY DEF From, Round
<1>5. sn \in Nat BY DEF LoadIInv, LoadType
<1>6. PICK w \in Nat \ {0} : w = Sbwsize /\ w % 4 = 0 BY LoadSizes
<1>7. /\ so' \in Nat /\ sp' \in Nat /\ sl' \in Nat /\ sn' \in Nat /\ ro' \in Nat /\ rl' \in Nat
      /\ sp' + sl' = Len(buf) /\ so' = From + sp' /\ so' + sl' = so + sl
  <2>1. /\ sp + m \in Nat /\ so + m \in Nat /\ sl - m \in Nat /\ ro + m \in Nat /\ rl - m \in Nat
        /\ (sp + m) + (sl - m) = sp + sl /\ (From + sp) + m = From + (sp + m) /\ (so + m) + (sl - m) = so + sl
    <3>1. /\ sp \in Nat /\ so \in Nat /\ sl \in Nat /\ ro \in Nat /\ rl \in Nat /\ From \in Nat
          /\ m \in Nat /\ m <= rl /\ rl <= sl
      BY <1>1, <1>2
    <3> QED BY ONLY <3>1
  <2>2. sn' \in Nat BY <1>3, <1>5, <1>6
  <2>3. so' = From + sp' BY <1>1, <1>3, <2>1
  <2> QED BY <1>1, <1>3, <2>1, <2>2, <2>3
<1>8. sp' % 4 = 0 /\ rl' % 4 = 0
  <2>1. (sp + m) % 4 = 0 /\ (rl - m) % 4 = 0 BY <1>1, <1>2, Fours
  <2> QED BY <1>3, <2>1
<1>9. LoadBuffer'
  <2>1. so' + sl' <= RamSize BY <1>1, <1>7
  <2>2. pc' # "next" BY <1>0, <1>3
  <2> QED BY <1>4, <2>1, <2>2 DEF LoadIInv, LoadBuffer, Round
<1>10. CASE rl > m
  <2>1. pc' = "rounds" BY <1>0, <1>3, <1>10
  <2>2. ro' = so' % w /\ so' - (so' % w) = so - ro
    <3>0. ro + m < w /\ ro = so % w BY <1>1, <1>2, <1>6, <1>10
    <3>1. (so % w) + m < w BY <3>0
    <3>2. (so + m) % w = (so % w) + m
      <4>1. so \in Nat BY <1>1
      <4>2. \A k \in Nat : (so % w) + k < w => (so + k) % w = (so % w) + k BY <4>1, InWindow
      <4> QED BY <3>1, <4>2
    <3>3. ro' = so' % w BY <1>3, <3>0, <3>2
    <3>4. (so + m) - (ro + m) = so - ro BY <1>1
    <3> QED BY <1>3, <3>3, <3>4
  <2>3. /\ rl' > 0 /\ rl' <= sl' /\ ro' + rl' = ro + rl /\ sl' > 0 /\ (rl' < sl' => rl < sl)
    <3>1. /\ rl - m > 0 /\ rl - m <= sl - m /\ (ro + m) + (rl - m) = ro + rl /\ sl - m > 0
          /\ (rl - m < sl - m => rl < sl)
      BY <1>1, <1>2, <1>10
    <3> QED BY <1>3, <3>1
  <2>4. LoadPlace' BY <1>1, <1>3, <1>4, <1>6, <1>7, <1>8, <2>1, <2>2, <2>3 DEF LoadPlace, Round
  <2> QED BY <1>2, <1>3, <1>4, <1>6, <1>7, <1>9, <2>1, <2>2, <2>4
<1>11. CASE ~(rl > m) /\ sl > m
  <2>1. pc' = "window" /\ sn' = Sbwsize BY <1>3, <1>11
  <2>2. so' % w = 0
    <3>1. m = rl /\ rl < sl BY <1>1, <1>2, <1>11
    <3>2. (so % w) + m = w BY <1>1, <1>6, <3>1
    <3>3. (so + m) % w = 0
      <4>1. so \in Nat BY <1>1
      <4>2. \A k \in Nat : (so % w) + k = w => (so + k) % w = 0 BY <4>1, InWindow
      <4> QED BY <3>2, <4>2
    <3> QED BY <1>3, <3>3
  <2>3. sn' = FirstPart(so') BY <1>6, <2>1, <2>2 DEF FirstPart
  <2>4. sl' > 0 BY <1>1, <1>3, <1>11
  <2>5. LoadPlace' BY <1>1, <1>4, <1>7, <1>8, <2>1, <2>3, <2>4 DEF LoadPlace, Round
  <2> QED BY <1>2, <1>3, <1>4, <1>7, <1>9, <2>1, <2>5
<1>12. CASE ~(rl > m) /\ ~(sl > m)
  <2>1. pc' = "moved" BY <1>3, <1>12
  <2>2. sl' = 0 /\ sp' = Len(buf)
    <3>1. m = sl /\ sl - m = 0 /\ sp + m = sp + sl BY <1>1, <1>2, <1>12
    <3> QED BY <1>1, <1>3, <3>1
  <2>3. LoadPlace' BY <1>4, <1>7, <2>1, <2>2 DEF LoadPlace, Round
  <2> QED BY <1>2, <1>3, <1>4, <1>7, <1>9, <2>1, <2>3
<1> QED BY <1>10, <1>11, <1>12

\* What a round has moved of m bytes: all of them, or k when it failed.
Transfer(m, k) == Moved(k) /\ ((k = m /\ NoFault) \/ (k < m /\ Fault))

LEMMA RoundTransfers ==
    ASSUME LoadIInv, Round, NEW m \in Nat, m = RoundBytes(rl)
    PROVE  \E k \in Nat : k <= m /\ Transfer(m, k)
<1>1. CASE Moved(m) /\ NoFault
  <2>1. Transfer(m, m) /\ m <= m BY <1>1 DEF Transfer
  <2> QED BY <2>1
<1>2. CASE \E k \in 0 .. (m - 1) : k % 4 = 0 /\ Moved(k) /\ Fault
  <2>1. PICK k \in 0 .. (m - 1) : Moved(k) /\ Fault BY <1>2
  <2>2. k \in Nat /\ k <= m /\ k < m OBVIOUS
  <2> QED BY <2>1, <2>2 DEF Transfer
<1> QED BY <1>1, <1>2 DEF Round

\* An earlier failure does not excuse a later one.
LEMMA RoundFaults ==
    ASSUME LoadIInv, NEW m \in Nat, NEW k \in Nat, Transfer(m, k)
    PROVE  /\ LoadFaults' /\ faults \in Nat /\ faults' \in Nat /\ failed' \in SUBSET Phases
           /\ failed \subseteq failed' /\ faults <= faults'
           /\ phase \notin failed' => k = m
           /\ Cleared' => Cleared
<1>1. NoFault \/ Fault BY DEF Transfer
<1>2. LoadFaults' /\ faults' \in Nat /\ failed' \in SUBSET Phases /\ failed \subseteq failed' /\ faults <= faults'
  BY <1>1, FaultStep DEF LoadIInv
<1>3. faults \in Nat BY DEF LoadIInv, LoadType
<1>4. phase \notin failed' => k = m BY DEF Transfer, Fault
<1>5. Cleared' => Cleared BY <1>2 DEF Cleared
<1> QED BY <1>2, <1>3, <1>4, <1>5

LEMMA RoundType ==
    ASSUME LoadIInv, Round PROVE LoadType' /\ LoadPlace' /\ LoadBuffer' /\ LoadFaults' /\ LoadWindow'
<1>1. PICK m \in Nat :
        /\ m = RoundBytes(rl) /\ m > 0 /\ m <= rl /\ so' = so + m /\ sp' = sp + m
        /\ LoadPlace' /\ LoadBuffer' /\ From' = From /\ pc' \in {"rounds", "window", "moved"}
        /\ so' \in Nat /\ sp' \in Nat /\ sl' \in Nat /\ sn' \in Nat /\ ro' \in Nat /\ rl' \in Nat
        /\ pc' = "rounds" => so' - (so' % Sbwsize) = so - ro
  BY RoundControl
<1>2. PICK k \in Nat : k <= m /\ Transfer(m, k) BY <1>1, RoundTransfers
<1>3. pc = "rounds" /\ rl \in Nat /\ ro = so % Sbwsize
  <2>1. pc = "rounds" BY DEF Round
  <2> QED BY <2>1, RoundFacts
<1>4. k <= rl /\ Moved(k) BY <1>1, <1>2, <1>3 DEF Transfer
<1>5. LoadFaults' /\ faults' \in Nat /\ failed' \in SUBSET Phases /\ failed \subseteq failed' BY <1>2, RoundFaults
<1>6. ram' \in [Addresses -> Int] /\ cbuf' \in [1 .. Uploadsz -> Int]
  <2>1. ram \in [Addresses -> Int] /\ cbuf \in [1 .. Uploadsz -> Int] BY DEF LoadIInv, LoadType
  <2>2. CASE phase \in Writing BY <1>3, <1>4, <2>1, <2>2, MovedWrites
  <2>3. CASE phase \notin Writing BY <1>3, <1>4, <2>1, <2>3, MovedReads
  <2> QED BY <2>2, <2>3
<1>7. LoadType' BY <1>1, <1>5, <1>6 DEF LoadType, LoadIInv, Round
<1>8. LoadWindow'
  <2>1. SUFFICES ASSUME pc' = "rounds", phase \notin failed PROVE RightWindow' BY <1>5 DEF LoadWindow, Round
  <2>2. window = so - (so % Sbwsize) BY <1>3, <2>1 DEF LoadIInv, LoadWindow, RightWindow
  <2>3. window' = so' - (so' % Sbwsize) BY <1>1, <1>3, <2>1, <2>2 DEF Round
  <2> QED BY <2>3 DEF RightWindow
<1> QED BY <1>1, <1>5, <1>7, <1>8

\* Reading back.
LEMMA RoundReads ==
    ASSUME LoadIInv, Round, phase \notin Writing
    PROVE  LoadFirmware' /\ LoadRead' /\ LoadConfig' /\ LoadToken'
<1>1. PICK m \in Nat : m = RoundBytes(rl) /\ m <= rl /\ sp' = sp + m /\ sp' \in Nat /\ LoadPlace' /\ LoadBuffer'
                       /\ pc' \in {"rounds", "window", "moved"}
  BY RoundControl
<1>2. PICK k \in Nat : k <= m /\ Transfer(m, k) BY <1>1, RoundTransfers
<1>3. pc = "rounds" BY DEF Round
<1>4. /\ sp \in Nat /\ sl \in Nat /\ rl \in Nat /\ rl <= sl /\ sp + sl = Len(buf) /\ Len(buf) <= Uploadsz /\ Len(buf) \in Nat
      /\ (phase \notin failed => window + ro = so) /\ so = From + sp /\ phase \in Phases \ {"done"} /\ off \in Nat
  BY <1>3, RoundFacts
<1>5. k <= rl /\ Moved(k) BY <1>1, <1>2, <1>4 DEF Transfer
<1>6. /\ ram' = ram
      /\ \A j \in 1 .. Uploadsz : cbuf'[j] = IF sp + 1 <= j /\ j <= sp + k THEN ram[window + ro + (j - sp - 1)] ELSE cbuf[j]
  BY <1>3, <1>5, MovedReads
<1>7. /\ faults \in Nat /\ faults' \in Nat /\ failed \subseteq failed' /\ faults <= faults'
      /\ (phase \notin failed' => k = m) /\ (Cleared' => Cleared)
  BY <1>2, RoundFaults
<1>8. /\ phase' = phase /\ off' = off /\ n' = n /\ buf' = buf /\ fwRet' = fwRet /\ cfgRet' = cfgRet /\ running' = running
      /\ config' = config
  BY DEF Round
<1>9. phase \in {"fwcmp", "cfgcmp"} BY <1>4 DEF Phases, Writing
<1>10. LoadRead'
  <2>1. SUFFICES ASSUME phase \notin failed', NEW j \in 1 .. sp + m PROVE cbuf'[j] = ram[off + j - 1]
    BY <1>1, <1>6, <1>8 DEF LoadRead
  <2>2. k = m /\ window + ro = so /\ phase \notin failed BY <1>4, <1>7, <2>1
  <2>3. so = off + sp BY <1>4, <1>9 DEF From, Ends4
  <2>4. PICK up \in Nat : up = Uploadsz BY LoadSizes
  <2>5. j \in 1 .. up BY <1>1, <1>4, <2>4
  <2>6. CASE j <= sp
    <3>1. cbuf'[j] = cbuf[j] /\ j \in 1 .. sp BY <1>4, <1>6, <2>4, <2>5, <2>6
    <3>2. cbuf[j] = ram[off + j - 1] BY <1>3, <1>9, <2>2, <3>1 DEF LoadIInv, LoadRead
    <3> QED BY <3>1, <3>2
  <2>7. CASE ~(j <= sp)
    <3>1. sp + 1 <= j /\ j <= sp + k BY <1>4, <2>2, <2>7
    <3>2. cbuf'[j] = ram[so + (j - sp - 1)] BY <1>6, <2>2, <2>4, <2>5, <3>1
    <3>3. off + sp + (j - sp - 1) = off + j - 1 BY <1>4
    <3> QED BY <2>3, <3>2, <3>3
  <2> QED BY <2>6, <2>7
<1>11. LoadFirmware'
  <2>1. Unwritten(FwLen + 3)' <=> Unwritten(FwLen + 3) BY <1>6 DEF Unwritten
  <2>2. FwThere' <=> FwThere BY <1>6 DEF FwThere
  <2> QED BY <1>6, <1>7, <1>8, <1>9, <2>1, <2>2 DEF LoadIInv, LoadFirmware
<1>12. LoadConfig'
  <2>1. SUFFICES ASSUME phase = "cfgcmp", fwRet = 0, faults' <= 1
                 PROVE  \/ FwThere' /\ CfgThere(n)'
                        \/ "cfg" \in failed' /\ \E a \in Addresses : off' <= a /\ a < off' + n' /\ ram'[a] = Old
    BY <1>8, <1>9 DEF LoadConfig
  <2>2. faults <= 1 BY <1>7, <2>1
  <2>3. \/ FwThere /\ CfgThere(n)
        \/ "cfg" \in failed /\ \E a \in Addresses : off <= a /\ a < off + n /\ ram[a] = Old
    BY <2>1, <2>2 DEF LoadIInv, LoadConfig
  <2>4. (FwThere /\ CfgThere(n)) => (FwThere' /\ CfgThere(n)') BY <1>6, <1>8 DEF FwThere, CfgThere
  <2> QED BY <1>6, <1>7, <1>8, <2>3, <2>4
<1>13. LoadToken' BY <1>8, <1>9 DEF LoadIInv, LoadToken
<1> QED BY <1>10, <1>11, <1>12, <1>13

\* What a round that writes does to the RAM.
LEMMA RoundPuts ==
    ASSUME LoadIInv, Round, phase \in Writing
    PROVE  \E m \in Nat, k \in Nat, x \in Nat :
             /\ Transfer(m, k) /\ k <= m /\ m > 0 /\ m <= rl /\ so' = so + m /\ sp' = sp + m
             /\ x = window + ro /\ x + m <= RamSize
             /\ \A a \in Addresses : ram'[a] = IF x <= a /\ a < x + k THEN buf[sp + 1 + (a - x)] ELSE ram[a]
             /\ (phase \notin failed' => x = so /\ k = m) /\ (RightWindow => x = so)
             /\ pc' \in {"rounds", "window", "moved"}
             /\ pc' = "rounds" => so' - (so' % Sbwsize) = so - ro
<1>1. PICK m \in Nat :
        /\ m = RoundBytes(rl) /\ m > 0 /\ m <= rl /\ so' = so + m /\ sp' = sp + m
        /\ pc' \in {"rounds", "window", "moved"}
        /\ pc' = "rounds" => so' - (so' % Sbwsize) = so - ro
  BY RoundControl
<1>2. PICK k \in Nat : k <= m /\ Transfer(m, k) BY <1>1, RoundTransfers
<1>3. pc = "rounds" BY DEF Round
<1>4. /\ rl \in Nat /\ window \in Nat /\ ro \in Nat /\ ro + rl <= Sbwsize /\ window + Sbwsize <= RamSize
      /\ (phase \notin failed => window + ro = so) /\ (RightWindow => window + ro = so)
  BY <1>3, RoundFacts
<1>5. k <= rl /\ Moved(k) BY <1>1, <1>2, <1>4 DEF Transfer
<1>6. PICK x \in Nat : x = window + ro BY <1>4
<1>7. \A a \in Addresses : ram'[a] = IF x <= a /\ a < x + k THEN buf[sp + 1 + (a - x)] ELSE ram[a]
  BY <1>3, <1>5, <1>6, MovedWrites
<1>8. failed \subseteq failed' /\ (phase \notin failed' => k = m) BY <1>2, RoundFaults
<1>9. x + m <= RamSize
  <2>1. PICK w \in Nat, rs \in Nat : w = Sbwsize /\ rs = RamSize BY LoadSizes
  <2> QED BY <1>1, <1>4, <1>6, <2>1
<1> QED BY <1>1, <1>2, <1>4, <1>6, <1>7, <1>8, <1>9

\* The word at the end of the RAM.
LEMMA RoundWord ==
    ASSUME LoadIInv, Round, phase \in Ends4
    PROVE  LoadFirmware' /\ LoadRead' /\ LoadConfig' /\ LoadToken'
<1>1. PICK m \in Nat, k \in Nat, x \in Nat :
        /\ Transfer(m, k) /\ k <= m /\ m > 0 /\ m <= rl /\ sp' = sp + m
        /\ \A a \in Addresses : ram'[a] = IF x <= a /\ a < x + k THEN buf[sp + 1 + (a - x)] ELSE ram[a]
        /\ phase \notin failed' => x = so /\ k = m
        /\ pc' \in {"rounds", "window", "moved"}
  BY RoundPuts DEF Ends4, Writing
<1>2. pc = "rounds" BY DEF Round
<1>3. /\ sp \in Nat /\ sl \in Nat /\ so \in Nat /\ rl \in Nat /\ rl <= sl /\ sp + sl = Len(buf) /\ Len(buf) \in Nat
      /\ so = From + sp
  BY <1>2, RoundFacts
<1>4. so = RamSize - 4 + sp /\ RamSize - 4 \in Nat /\ FwLen < RamSize - 4 BY <1>3, RamTop DEF From
<1>5. /\ faults \in Nat /\ faults' \in Nat /\ failed \subseteq failed' /\ faults <= faults'
  BY <1>1, RoundFaults
<1>6. /\ phase' = phase /\ buf' = buf /\ fwRet' = fwRet /\ cfgRet' = cfgRet /\ running' = running /\ config' = config
  BY DEF Round
<1>7. ASSUME phase \notin failed', NEW a \in Addresses, a < RamSize - 4 PROVE ram'[a] = ram[a]
  <2>1. a \in Nat BY RamTop
  <2>2. ~(x <= a) BY <1>1, <1>3, <1>4, <1>7, <2>1
  <2> QED BY <1>1, <2>2
<1>8. LoadRead' BY <1>6 DEF LoadRead, Ends4
<1>9. CASE phase = "zero"
  <2>1. "zero" \notin failed' => Unwritten(0)'
    <3>1. "zero" \notin failed' => \A b \in Addresses : b < RamSize - 4 => ram[b] = Old
      BY <1>5, <1>9, RamTop DEF LoadIInv, LoadFirmware, Unwritten
    <3> QED BY <1>7, <1>9, <3>1 DEF Unwritten
  <2>2. LoadFirmware' BY <1>6, <1>9, <2>1 DEF LoadFirmware
  <2>3. LoadConfig' /\ LoadToken' BY <1>6, <1>9 DEF LoadIInv, LoadConfig, LoadToken
  <2> QED BY <1>8, <2>2, <2>3
<1>10. CASE phase = "token"
  <2>1. LoadFirmware' BY <1>6, <1>10 DEF LoadFirmware
  <2>2. LoadConfig'
    <3>1. SUFFICES ASSUME fwRet = 0, cfgRet > 0, faults' <= 1, "token" \notin failed'
                   PROVE  /\ FwThere'
                          /\ \A a \in Addresses : RamSize - 4 - cfgRet <= a /\ a < RamSize - 4 =>
                               ram'[a] = condense(config)[a - (RamSize - 4 - cfgRet) + 1]
      BY <1>6, <1>10 DEF LoadConfig
    <3>2. faults <= 1 /\ "token" \notin failed BY <1>5, <3>1
    <3>3. /\ FwThere
          /\ \A a \in Addresses : RamSize - 4 - cfgRet <= a /\ a < RamSize - 4 =>
               ram[a] = condense(config)[a - (RamSize - 4 - cfgRet) + 1]
      BY <1>10, <3>1, <3>2 DEF LoadIInv, LoadConfig
    <3>4. \A a \in Addresses : a < FwLen => a < RamSize - 4 BY <1>4, RamTop, LoadSizes
    <3>5. FwThere' BY <1>7, <1>10, <3>1, <3>3, <3>4 DEF FwThere
    <3> QED BY <1>7, <1>10, <3>1, <3>3, <3>5
  <2>3. LoadToken'
    <3>1. ~running BY <1>10 DEF LoadIInv, LoadToken
    <3>2. ASSUME "token" \notin failed', NEW a \in Addresses, RamSize - 4 <= a, a < RamSize - 4 + (sp + m)
          PROVE  ram'[a] = TokenBytes(cfgRet)[1]
      <4>1. x = so /\ k = m /\ "token" \notin failed BY <1>1, <1>5, <1>10, <3>2
      <4>2. a \in Nat BY RamTop
      <4>3. CASE a < so
        <5>1. ram'[a] = ram[a] BY <1>1, <1>3, <4>1, <4>2, <4>3
        <5>2. a < RamSize - 4 + sp BY <1>4, <4>3
        <5>3. ram[a] = TokenBytes(cfgRet)[1] BY <1>2, <1>10, <3>2, <4>1, <5>2 DEF LoadIInv, LoadToken
        <5> QED BY <5>1, <5>3
      <4>4. CASE ~(a < so)
        <5>1. so <= a /\ a < so + m BY <1>3, <1>4, <3>2, <4>2, <4>4
        <5>2. ram'[a] = buf[sp + 1 + (a - so)] BY <1>1, <4>1, <5>1
        <5>3. buf = TokenBytes(cfgRet) /\ cfgRet \in Int /\ cfgRet >= -1
          BY <1>2, <1>10 DEF LoadIInv, LoadBuffer, LoadType
        <5>4. Len(buf) = 4 /\ \A j \in 1 .. 4 : buf[j] = TokenBytes(cfgRet)[1] BY <5>3, TokenIs
        <5>5. sp + 1 + (a - so) \in 1 .. 4
          <6>1. m <= sl BY <1>1, <1>3
          <6>2. PICK d \in Nat : d = a - so /\ d < sl BY <1>3, <4>2, <5>1, <6>1
          <6>3. sp + sl = 4 BY <1>3, <5>4
          <6>4. sp + 1 + d \in 1 .. 4 BY <1>3, <6>2, <6>3
          <6> QED BY <6>2, <6>4
        <5> QED BY <5>2, <5>4, <5>5
      <4> QED BY <4>3, <4>4
    <3> QED BY <1>1, <1>6, <1>10, <3>1, <3>2 DEF LoadToken
  <2> QED BY <1>8, <2>1, <2>2, <2>3
<1> QED BY <1>9, <1>10 DEF Ends4

LEMMA RoundFw ==
    ASSUME LoadIInv, Round, phase = "fw"
    PROVE  LoadFirmware' /\ LoadRead' /\ LoadConfig' /\ LoadToken'
<1>1. PICK m \in Nat, k \in Nat, x \in Nat :
        /\ Transfer(m, k) /\ k <= m /\ m > 0 /\ m <= rl /\ sp' = sp + m
        /\ \A a \in Addresses : ram'[a] = IF x <= a /\ a < x + k THEN buf[sp + 1 + (a - x)] ELSE ram[a]
        /\ phase \notin failed' => x = so /\ k = m
        /\ pc' \in {"rounds", "window", "moved"}
  BY RoundPuts DEF Writing
<1>2. pc = "rounds" BY DEF Round
<1>3. /\ sp \in Nat /\ sl \in Nat /\ so \in Nat /\ rl \in Nat /\ rl <= sl /\ sp + sl = Len(buf) /\ Len(buf) \in Nat
      /\ so = From + sp /\ off \in Nat
  BY <1>2, RoundFacts
<1>4. so = off + sp BY <1>3 DEF From, Ends4
<1>5. failed \subseteq failed' /\ (Cleared' => Cleared) BY <1>1, RoundFaults
<1>6. phase' = phase /\ off' = off /\ running' = running BY DEF Round
<1>7. Come = so /\ Come' = so + m
  <2>1. off + (sp + m) = (off + sp) + m BY <1>3
  <2> QED BY <1>1, <1>2, <1>4, <1>6, <2>1 DEF Come
<1>8. buf = FwBlock(off) /\ off < FwLen BY <1>2 DEF LoadIInv, LoadBuffer, Firm
<1>9. ASSUME "fw" \notin failed', NEW a \in Addresses, a < so + m PROVE ram'[a] = FwByte(a)
  <2>1. x = so /\ k = m /\ "fw" \notin failed BY <1>1, <1>5, <1>9
  <2>2. a \in Nat BY RamTop
  <2>3. CASE a < so
    <3>1. ram'[a] = ram[a] BY <1>1, <1>3, <2>1, <2>2, <2>3
    <3>2. ram[a] = FwByte(a) BY <1>7, <2>1, <2>3 DEF LoadIInv, LoadFirmware
    <3> QED BY <3>1, <3>2
  <2>4. CASE ~(a < so)
    <3>1. so <= a BY <1>3, <2>2, <2>4
    <3>2. ram'[a] = buf[sp + 1 + (a - so)] BY <1>1, <1>9, <2>1, <3>1
    <3>3. PICK j \in 1 .. Len(buf) : j = sp + 1 + (a - so) /\ off + j - 1 = a
      <4>1. m <= sl BY <1>1, <1>3
      <4>2. sp + 1 + (a - so) \in 1 .. Len(buf) BY <1>3, <1>9, <2>2, <3>1, <4>1
      <4>3. off + (sp + 1 + (a - (off + sp))) - 1 = a BY <1>3, <2>2
      <4> QED BY <1>4, <4>2, <4>3
    <3>4. buf[j] = FwByte(off + j - 1) BY <1>3, <1>8, FwBlockIs
    <3> QED BY <3>2, <3>3, <3>4
  <2> QED BY <2>3, <2>4
<1>10. Cleared' => Unwritten(Come)'
  <2>1. SUFFICES ASSUME Cleared', NEW b \in Addresses, so + m <= b, b < RamSize - 4 PROVE ram'[b] = Old
    BY <1>7 DEF Unwritten
  <2>2. x = so /\ k = m BY <1>1, <2>1 DEF Cleared
  <2>3. b \in Nat BY RamTop
  <2>4. ~(b < so + m) /\ so <= b BY <1>3, <2>1, <2>3
  <2>5. ram'[b] = ram[b] BY <1>1, <2>2, <2>4
  <2>6. ram[b] = Old BY <1>5, <1>7, <2>1, <2>4 DEF LoadIInv, LoadFirmware, Unwritten
  <2> QED BY <2>5, <2>6
<1>11. LoadFirmware' BY <1>6, <1>7, <1>9, <1>10 DEF LoadFirmware
<1>12. LoadRead' /\ LoadConfig' /\ LoadToken' BY <1>6 DEF LoadIInv, LoadRead, LoadConfig, LoadToken
<1> QED BY <1>11, <1>12

\* The configuration: a byte that was not written, or was written to another
\* window, is missing for good.
LEMMA RoundCfg ==
    ASSUME LoadIInv, Round, phase = "cfg"
    PROVE  LoadFirmware' /\ LoadRead' /\ LoadConfig' /\ LoadToken'
<1>1. PICK m \in Nat, k \in Nat, x \in Nat :
        /\ Transfer(m, k) /\ k <= m /\ m > 0 /\ m <= rl /\ so' = so + m /\ sp' = sp + m /\ x = window + ro
        /\ \A a \in Addresses : ram'[a] = IF x <= a /\ a < x + k THEN buf[sp + 1 + (a - x)] ELSE ram[a]
        /\ (phase \notin failed' => x = so /\ k = m) /\ (RightWindow => x = so)
        /\ pc' \in {"rounds", "window", "moved"}
        /\ pc' = "rounds" => so' - (so' % Sbwsize) = so - ro
  BY RoundPuts DEF Writing
<1>2. pc = "rounds" BY DEF Round
<1>3. /\ sp \in Nat /\ sl \in Nat /\ so \in Nat /\ rl \in Nat /\ ro \in Nat /\ off \in Nat /\ window \in Nat
      /\ rl <= sl /\ sp + sl = Len(buf) /\ Len(buf) \in Nat /\ so = From + sp /\ ro = so % Sbwsize /\ ro + rl <= Sbwsize
      /\ window % Sbwsize = 0 /\ so - ro \in Nat /\ (so - ro) % Sbwsize = 0
  BY <1>2, RoundFacts
<1>3a. /\ sp \in Nat /\ sl \in Nat /\ so \in Nat /\ rl \in Nat /\ ro \in Nat /\ off \in Nat /\ window \in Nat
       /\ rl <= sl /\ k <= m /\ m > 0 /\ m <= rl /\ x = window + ro
  BY <1>1, <1>3
<1>4. so = off + sp BY <1>3 DEF From, Ends4
<1>5. /\ buf = condense(config) /\ config \in Configs /\ n = Len(buf) /\ off = RamSize - 4 - n
  BY <1>2 DEF LoadIInv, LoadBuffer, Conf
<1>6. off >= FwLen /\ so + sl = RamSize - 4
  <2>1. Len(buf) % 4 = 0 /\ Len(buf) <= MaxConfig + 5 BY <1>5, CondenseIs
  <2>2. PICK rs \in Nat, fl \in Nat, mc \in Nat, lb \in Nat :
          rs = RamSize /\ fl = FwLen /\ mc = MaxConfig /\ lb = Len(buf) /\ fl + mc + 12 <= rs /\ lb <= mc + 5
    BY <1>3, <2>1, LoadSizes
  <2>3. off = rs - 4 - lb BY <1>5, <2>2
  <2>4. off >= fl BY <2>2, <2>3
  <2>5. so + sl = off + lb
    <3>1. sp + sl = lb BY <1>3, <2>2
    <3>2. (off + sp) + sl = off + (sp + sl) BY <1>3a
    <3> QED BY <1>4, <3>1, <3>2
  <2>6. off + lb = rs - 4 BY <1>3, <2>2, <2>3
  <2> QED BY <2>2, <2>4, <2>5, <2>6
<1>7. /\ faults \in Nat /\ faults' \in Nat /\ failed \subseteq failed' /\ faults <= faults' /\ (Cleared' => Cleared)
  BY <1>1, RoundFaults
<1>8. /\ phase' = phase /\ off' = off /\ n' = n /\ buf' = buf /\ fwRet' = fwRet /\ running' = running
      /\ window' = window
  BY DEF Round
<1>9. LoadFirmware' /\ LoadRead' /\ LoadToken'
  BY <1>1, <1>8 DEF LoadIInv, LoadFirmware, LoadRead, LoadToken
<1>10. m <= sl /\ so < RamSize - 4 /\ so + m <= RamSize - 4 /\ off <= so
  <2>1. PICK top \in Nat : top = RamSize - 4 BY RamTop
  <2>2. m <= sl /\ so + sl = top BY <1>3a, <1>6, <2>1
  <2>3. so < top /\ so + m <= top /\ off <= so BY <1>3a, <1>4, <2>2
  <2> QED BY <2>1, <2>2, <2>3
<1>11. PICK w \in Nat \ {0} : w = Sbwsize BY LoadSizes
<1>12. pc' = "rounds" /\ RightWindow => RightWindow'
  <2>1. SUFFICES ASSUME pc' = "rounds", RightWindow PROVE window' = so' - (so' % Sbwsize) BY DEF RightWindow
  <2>2. window = so - ro BY <1>3, <2>1 DEF RightWindow
  <2> QED BY <1>1, <1>8, <2>1, <2>2
<1>13. \* Another window than that of a: a is left alone.
  ASSUME NEW a \in Addresses, ~RightWindow, a - (a % Sbwsize) = so - (so % Sbwsize) PROVE ram'[a] = ram[a]
  <2>1. a \in Nat BY RamTop
  <2>2. PICK v \in Nat : v = so - ro /\ v % w = 0 BY <1>3, <1>11
  <2>3. v # window BY <1>3, <1>13, <2>2 DEF RightWindow
  <2>4. v + w <= window \/ window + w <= v BY <1>3, <1>11, <2>2, <2>3, OtherWindow
  <2>5. PICK r \in Nat : r = a % w /\ r < w BY <2>1, Rem
  <2>6. a - r = v BY <1>3, <1>11, <1>13, <2>2, <2>5
  <2>7. a = v + r BY <2>1, <2>5, <2>6
  <2>8. x + k <= window + w
    <3>1. k <= rl BY <1>1, <1>3
    <3>2. ro + k <= w
      <4>1. ro + rl <= w BY <1>3, <1>11
      <4> QED BY <1>3a, <3>1, <4>1
    <3>3. (window + ro) + k <= window + w BY <1>3a, <3>2
    <3> QED BY <1>3a, <3>3
  <2>9. ~(x <= a /\ a < x + k)
    <3>1. CASE v + w <= window
      <4>1. a < window BY <1>3, <2>5, <2>7, <3>1
      <4>2. window <= x BY <1>1, <1>3
      <4> QED BY <1>3, <2>1, <4>1, <4>2
    <3>2. CASE window + w <= v
      <4>1. v <= a BY <2>7
      <4>2. x + k <= v BY <1>3a, <2>8, <3>2
      <4> QED BY <2>1, <4>1, <4>2
    <3> QED BY <2>4, <3>1, <3>2
  <2> QED BY <1>1, <2>9
<1>14. ASSUME fwRet = 0, faults' <= 1
       PROVE  \/ Sound' /\ (pc' = "rounds" => RightWindow' \/ "cfg" \in failed')
              \/ Missing'
  <2>1. faults <= 1 BY <1>7, <1>14
  <2>2. \/ Sound /\ (RightWindow \/ "cfg" \in failed)
        \/ Missing
    BY <1>2, <1>8, <1>14, <2>1 DEF LoadIInv, LoadConfig
  <2>3. ASSUME NEW a \in Addresses, a < so, RightWindow PROVE ram'[a] = ram[a]
    <3>1. a \in Nat BY RamTop
    <3>2. ~(x <= a) BY <1>1, <1>3, <2>3, <3>1
    <3> QED BY <1>1, <3>2
  <2>4. "cfg" \in failed => Cleared
    <3>1. faults = 0 \/ faults = 1 BY <1>7, <2>1
    <3> QED BY <3>1 DEF LoadIInv, LoadFaults, Cleared
  <2>5. "cfg" \in failed => NoFault /\ k = m
    <3>1. SUFFICES ASSUME "cfg" \in failed PROVE ~Fault BY <1>1 DEF Transfer
    <3>2. faults # 0 BY <3>1 DEF LoadIInv, LoadFaults
    <3> QED BY <1>7, <1>14, <3>2 DEF Fault
  <2>6. CASE Sound /\ RightWindow /\ k = m
    <3>1. x = so BY <1>1, <2>6
    <3>2. FwThere'
      <4>1. \A a \in Addresses : a < FwLen => a < so BY <1>6, <1>10, <1>3, RamTop, LoadSizes
      <4> QED BY <2>3, <2>6, <4>1 DEF FwThere, Sound
    <3>3. CfgThere(sp)'
      <4>1. SUFFICES ASSUME NEW a \in Addresses, off <= a, a < off + (sp + m) PROVE ram'[a] = buf[a - off + 1]
        BY <1>1, <1>8 DEF CfgThere
      <4>2. a \in Nat BY RamTop
      <4>3. CASE a < so
        <5>1. ram'[a] = ram[a] BY <2>3, <2>6, <4>3
        <5>2. a < off + sp BY <1>4, <4>3
        <5> QED BY <2>6, <4>1, <5>1, <5>2 DEF Sound, CfgThere
      <4>4. CASE ~(a < so)
        <5>1. so <= a /\ a < so + m BY <1>3, <1>4, <4>1, <4>2, <4>4
        <5>2. ram'[a] = buf[sp + 1 + (a - so)] BY <1>1, <2>6, <3>1, <5>1
        <5>3. sp + 1 + (a - (off + sp)) = a - off + 1 BY <1>3, <4>2
        <5> QED BY <1>4, <5>2, <5>3
      <4> QED BY <4>3, <4>4
    <3>4. Cleared' => Unwritten(so)'
      <4>1. SUFFICES ASSUME Cleared', NEW b \in Addresses, so + m <= b, b < RamSize - 4 PROVE ram'[b] = Old
        BY <1>1 DEF Unwritten
      <4>2. b \in Nat BY RamTop
      <4>3. ~(b < so + m) /\ so <= b BY <1>3a, <4>1, <4>2
      <4>4. ram'[b] = ram[b] BY <1>1, <2>6, <3>1, <4>3
      <4>5. ram[b] = Old BY <1>7, <2>6, <4>1, <4>3 DEF Sound, Unwritten
      <4> QED BY <4>4, <4>5
    <3> QED BY <1>12, <2>6, <3>2, <3>3, <3>4 DEF Sound
  <2>7. CASE Sound /\ RightWindow /\ k # m
    <3>1. Fault /\ k < m BY <1>1, <2>7 DEF Transfer
    <3>2. "cfg" \in failed' BY <3>1 DEF Fault
    <3>3. "cfg" \notin failed BY <2>5, <2>7
    <3>4. faults = 0
      <4>1. faults' = faults + 1 BY <3>1 DEF Fault
      <4> QED BY <1>7, <1>14, <4>1
    <3>5. Cleared BY <3>4 DEF LoadIInv, LoadFaults, Cleared
    <3>6. PICK a \in Addresses : a = so + k
      <4>1. PICK top \in Nat : top = RamSize - 4 /\ RamSize - 1 = top + 3
        <5>1. RamSize - 4 \in Nat /\ RamSize \in Nat BY RamTop, LoadSizes
        <5> QED BY <5>1
      <4>2. so + m <= top BY <1>10, <4>1
      <4>3. so + k \in 0 .. top + 3 BY <1>3a, <3>1, <4>2
      <4> QED BY <4>1, <4>3, RamTop
    <3>7. off <= a /\ a < so + m /\ so <= a /\ a < RamSize - 4
      <4>1. PICK top \in Nat : top = RamSize - 4 BY RamTop
      <4>2. so + m <= top /\ off <= so BY <1>10, <4>1
      <4>3. off <= so + k /\ so + k < so + m /\ so <= so + k /\ so + k < top BY <1>3a, <3>1, <4>2
      <4> QED BY <3>6, <4>1, <4>3
    <3>8. ram[a] = Old BY <2>7, <3>5, <3>7 DEF Sound, Unwritten
    <3>9. ram'[a] = ram[a]
      <4>1. x = so BY <1>1, <2>7
      <4>2. ~(a < x + k) BY <1>3, <3>6, <4>1
      <4> QED BY <1>1, <4>2
    <3>10. Missing' BY <1>1, <1>8, <1>12, <2>7, <3>2, <3>7, <3>8, <3>9 DEF Missing
    <3> QED BY <3>10
  <2>8. CASE Sound /\ ~RightWindow /\ "cfg" \in failed
    <3>1. PICK a \in Addresses : a = so
      <4>1. so \in 0 .. RamSize - 1 BY <1>3, <1>10, LoadSizes
      <4> QED BY <4>1, RamTop
    <3>2. ram'[a] = ram[a] BY <1>13, <2>8, <3>1
    <3>3. ram[a] = Old
      <4>1. so <= a /\ a < RamSize - 4 BY <1>3, <1>10, <3>1
      <4> QED BY <2>4, <2>8, <4>1 DEF Sound, Unwritten
    <3>4. off <= a /\ a < so + m BY <1>1, <1>3, <1>10, <3>1
    <3>5. pc' = "rounds" => a - (a % Sbwsize) = so' - (so' % Sbwsize) BY <1>1, <1>3, <3>1
    <3>6. Missing' BY <1>1, <1>7, <1>8, <2>8, <3>2, <3>3, <3>4, <3>5 DEF Missing
    <3> QED BY <3>6
  <2>9. CASE Missing
    <3>1. "cfg" \in failed BY <2>9 DEF Missing
    <3>2. PICK a \in Addresses : /\ off <= a /\ a < so /\ ram[a] = Old
                                 /\ RightWindow \/ a - (a % Sbwsize) = so - (so % Sbwsize)
      BY <1>2, <2>9 DEF Missing
    <3>3. ram'[a] = Old BY <1>13, <2>3, <3>2
    <3>4. a < so + m
      <4>1. a \in Nat BY RamTop
      <4> QED BY <1>3a, <3>2, <4>1
    <3>5. pc' = "rounds" => RightWindow' \/ a - (a % Sbwsize) = so' - (so' % Sbwsize)
      <4>1. CASE RightWindow BY <1>12, <4>1
      <4>2. CASE ~RightWindow BY <1>1, <1>3, <3>2, <4>2
      <4> QED BY <4>1, <4>2
    <3>6. Missing' BY <1>1, <1>7, <1>8, <3>1, <3>2, <3>3, <3>4, <3>5 DEF Missing
    <3> QED BY <3>6
  <2> QED BY <2>2, <2>6, <2>7, <2>8, <2>9
<1>15. LoadConfig' BY <1>8, <1>14 DEF LoadConfig
<1> QED BY <1>9, <1>15

LEMMA LoadStep == ASSUME LoadIInv, Load PROVE LoadIInv'
<1>1. CASE Round
  <2>1. LoadType' /\ LoadPlace' /\ LoadBuffer' /\ LoadFaults' /\ LoadWindow' BY <1>1, RoundType
  <2>2. phase \in Phases \ {"done"}
    <3>1. pc = "rounds" BY <1>1 DEF Round
    <3> QED BY <3>1, RoundFacts
  <2>3. LoadFirmware' /\ LoadRead' /\ LoadConfig' /\ LoadToken'
    <3>1. CASE phase \in Ends4 BY <1>1, <3>1, RoundWord
    <3>2. CASE phase = "fw" BY <1>1, <3>2, RoundFw
    <3>3. CASE phase = "cfg" BY <1>1, <3>3, RoundCfg
    <3>4. CASE phase \in {"fwcmp", "cfgcmp"}
      <4>1. phase \notin Writing BY <3>4 DEF Writing
      <4> QED BY <1>1, <4>1, RoundReads
    <3> QED BY <2>2, <3>1, <3>2, <3>3, <3>4 DEF Phases, Ends4
  <2> QED BY <2>1, <2>3 DEF LoadIInv
<1> QED BY <1>1, LoadZero, LoadRefused, LoadFwNext, LoadFwEnd, LoadCfgNext, LoadFwMoved, LoadCfgWritten,
           LoadCfgCompared, LoadCompareFails, LoadTokenStep, LoadWordWritten, LoadWindowStep DEF Load

LEMMA LoadStays == ASSUME LoadIInv, UNCHANGED <<pc, faults, loadOnly>> PROVE LoadIInv'
<1> USE DEF LoadIInv, loadOnly
<1>1. LoadType' BY DEF LoadType
<1>2. LoadBuffer' BY DEF LoadBuffer, From
<1>3. LoadPlace' BY DEF LoadPlace, From
<1>4. LoadFaults' BY DEF LoadFaults
<1>5. LoadWindow' BY DEF LoadWindow, RightWindow
<1>6. LoadFirmware' BY DEF LoadFirmware, Unwritten, Cleared, Come, FwThere
<1>7. LoadRead' BY DEF LoadRead
<1>8. LoadConfig' BY DEF LoadConfig, Sound, Missing, RightWindow, FwThere, CfgThere, Unwritten, Cleared
<1>9. LoadToken' BY DEF LoadToken
<1> QED BY <1>1, <1>2, <1>3, <1>4, <1>5, <1>6, <1>7, <1>8, <1>9

LEMMA LoadIsSafe == ASSUME LoadIInv PROVE LoadInv
<1> USE DEF LoadIInv
<1>1. TypeOK BY DEF LoadType, TypeOK, Phases
<1>2. Len(buf) <= Uploadsz /\ so + sl <= RamSize BY DEF LoadBuffer
<1>3. ASSUME pc = "rounds"
      PROVE  ro + rl <= Sbwsize /\ sp + rl <= Len(buf) /\ rl > 0 /\ rl % 4 = 0 /\ ro % 4 = 0
  <2>1. /\ sp \in Nat /\ sl \in Nat /\ rl \in Nat /\ so \in Nat /\ From \in Nat /\ ro + rl <= Sbwsize /\ rl > 0 /\ rl % 4 = 0
        /\ rl <= sl /\ sp + sl = Len(buf) /\ ro = so % Sbwsize /\ so = From + sp /\ sp % 4 = 0
    BY <1>3, RoundFacts
  <2>2. sp + rl <= sp + sl BY <2>1
  <2>3. From % 4 = 0 BY <1>3 DEF LoadBuffer, LoadPlace
  <2>4. so % 4 = 0
    <3>1. (From + sp) % 4 = 0 BY <2>1, <2>3, Fours
    <3> QED BY <2>1, <3>1
  <2>5. ro % 4 = 0
    <3>1. (so % Sbwsize) % 4 = 0 BY <2>1, <2>4, LoadSizes, FourRem
    <3> QED BY <2>1, <3>1
  <2> QED BY <2>1, <2>2, <2>5
<1> QED BY <1>1, <1>2, <1>3 DEF LoadInv, RoundsInside

LEMMA ImageIsThere == ASSUME LoadIInv PROVE BootImage
<1> USE DEF LoadIInv
<1>1. SUFFICES ASSUME running, fwRet = 0, cfgRet > 0, faults <= 1, "token" \notin failed
               PROVE  /\ cfgRet = Len(condense(config)) /\ FwLen <= RamSize - 4 - cfgRet
                      /\ \A a \in (0 .. (FwLen - 1)) \cup ((RamSize - 4 - cfgRet) .. (RamSize - 1)) : ram[a] = Image(a)
  BY DEF BootImage
<1>2. phase = "done" BY <1>1 DEF LoadToken
<1>3. config \in Configs /\ cfgRet = Len(condense(config)) BY <1>1, <1>2 DEF LoadBuffer
<1>4. cfgRet \in Nat /\ cfgRet % 4 = 0 /\ cfgRet <= MaxConfig + 5 BY <1>3, CondenseIs
<1>5. PICK rs \in Nat, fl \in Nat, top \in Nat, low \in Nat :
        /\ rs = RamSize /\ fl = FwLen /\ top = RamSize - 4 /\ top + 4 = rs /\ low = RamSize - 4 - cfgRet /\ fl <= low
        /\ low + cfgRet = top
  <2>1. PICK rs \in Nat, fl \in Nat, mc \in Nat :
          rs = RamSize /\ fl = FwLen /\ mc = MaxConfig /\ fl + mc + 12 <= rs /\ cfgRet <= mc + 5
    BY <1>4, LoadSizes
  <2>2. /\ rs - 4 \in Nat /\ rs - 4 - cfgRet \in Nat /\ fl <= rs - 4 - cfgRet /\ (rs - 4) + 4 = rs
        /\ (rs - 4 - cfgRet) + cfgRet = rs - 4
    BY <1>4, <2>1
  <2> QED BY <2>1, <2>2
<1>6. /\ FwThere
      /\ \A a \in Addresses : low <= a /\ a < top => ram[a] = condense(config)[a - low + 1]
  BY <1>1, <1>2, <1>5 DEF LoadConfig
<1>7. \A a \in Addresses : top <= a => ram[a] = TokenBytes(cfgRet)[1] BY <1>1, <1>2, <1>5 DEF LoadToken
<1>8. ASSUME NEW a \in (0 .. (fl - 1)) \cup (low .. (rs - 1)) PROVE ram[a] = Image(a)
  <2>1. a \in 0 .. rs - 1 BY <1>4, <1>5
  <2>2. a \in Addresses /\ a \in Nat BY <1>5, <2>1, RamTop
  <2>3. CASE a < fl BY <1>5, <1>6, <2>2, <2>3 DEF FwThere, Image
  <2>4. CASE ~(a < fl) /\ a >= top
    <3>1. ram[a] = TokenBytes(cfgRet)[1] BY <1>7, <2>2, <2>4
    <3> QED BY <1>5, <2>4, <3>1 DEF Image
  <2>5. CASE ~(a < fl) /\ ~(a >= top)
    <3>1. low <= a /\ a < top BY <1>5, <2>2, <2>5
    <3>2. ram[a] = condense(config)[a - low + 1] BY <1>6, <2>2, <3>1
    <3> QED BY <1>5, <2>5, <3>2 DEF Image
  <2> QED BY <2>3, <2>4, <2>5
<1> QED BY <1>3, <1>5, <1>8

\* In every state of the upload, for every size of window, block, firmware and
\* RAM and every configuration file: rounds stay inside their window and their
\* buffer, the configuration that is written is the condensed one, and a chip
\* that starts after two uploads that reported success, with no more than one
\* failed access before the token, holds the image that was to be uploaded.
THEOREM UploadIsExact == BootSpec => []UploadExact
<1> DEFINE UploadInv == unit = "load" => LoadIInv
<1>1. BootInit => UploadInv
  BY LoadInit DEF BootInit
<1>2. UploadInv /\ [BootNext]_all => UploadInv'
  <2> SUFFICES ASSUME UploadInv, [BootNext]_all, unit' = "load" PROVE LoadIInv'
    OBVIOUS
  <2>1. CASE LoadOnly(Load)
    BY <2>1, LoadStep DEF LoadOnly
  <2>2. CASE ChipOnly(B!Next) \/ ControlOnly(C!Next)
    BY <2>2 DEF ChipOnly, ControlOnly
  <2>3. CASE UNCHANGED all
    BY <2>3, LoadStays DEF all
  <2> QED
    BY <2>1, <2>2, <2>3 DEF BootNext
<1>3. UploadInv => UploadExact
  <2> SUFFICES ASSUME LoadIInv PROVE LoadInv /\ ConfigCondensed /\ BootImage
    BY DEF UploadExact
  <2>1. ConfigCondensed
    <3> SUFFICES ASSUME phase = "cfg", pc # "next" PROVE buf = Promised(config) \/ CommentAtEnd(config)
      BY DEF ConfigCondensed
    <3>1. config \in Configs /\ buf = condense(config)
      BY DEF LoadIInv, LoadBuffer, Conf
    <3> QED
      BY <3>1, CondensedAsPromised
  <2> QED
    BY <2>1, LoadIsSafe, ImageIsThere
<1> QED
  BY <1>1, <1>2, <1>3, PTL DEF BootSpec
=============================================================================
