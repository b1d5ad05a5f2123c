---------------------------- MODULE WifiControl ----------------------------
(***************************************************************************)
(* src/plan9_ether4330.c: the settings of the wifi chip.  wlinit gives it  *)
(* its first ones; etherbcmctl parses a command and changes settings of    *)
(* the driver (the Ctlr) and, one wlcmd after another, of the firmware;    *)
(* lproc starts scans.  A wlcmd is one step here (module WifiDriver shows  *)
(* that it gets its own response); between two of them other tasks run.    *)
(* wljoin is a step, and another one for its result.                       *)
(*                                                                         *)
(* A command is a record, what the parsers (parsecmd, lookupcmd, parsehex, *)
(* parseether, wepparsekey, wpaparsekey) make of its text: ok fields say   *)
(* whether an argument parses.  Only commands of the table with all their  *)
(* arguments are given: for others the parser reads through null pointers. *)
(***************************************************************************)
EXTENDS Integers, Sequences

CONSTANTS Commands,     \* texts that may be given to wifi_control
          ChipIds,      \* chips wlinit may find
          MaxCommands   \* bound: number of commands

Wpa == 1
Wep == 2
Wpa2 == 3

VARIABLES pc, cmd,   \* etherbcmctl: where it is, the command
          todo,      \* settings it has still to send
          ctl,       \* the Ctlr
          fw,        \* settings of the firmware, and those of the last join
          lpc, secs, \* lproc
          bufs,      \* Cmdbufs not given back
          count,
          note       \* auxiliary: settings before the command, was it refused;
                     \* a WEP key or a bad element was set after the last good one

vars == <<pc, cmd, todo, ctl, fw, lpc, secs, bufs, count, note>>

-----------------------------------------------------------------------------
(* wlinit.                                                                 *)

\* The chips that get other settings.
StaysAwake(id) == id \in {43430, 17221}
SharesAntenna(id) == id = 17200

\* Settings in their order; "up" is off while they are changed.
InitSettings(id) ==
    <<<<"assoc_listen", 10>>, <<"powersave", IF StaysAwake(id) THEN 0 ELSE 2>>,
      <<"bus:txglom", 0>>, <<"bcn_timeout", 10>>, <<"assoc_retry_max", 3>>>>
    \o (IF SharesAntenna(id) THEN <<<<"btc_wire", 4>>, <<"btc_mode", 1>>, <<"mkeep_alive", 1>>>> ELSE <<>>)
    \o <<<<"event_msgs", 1>>, <<"scan_times", 40>>, <<"up", 0>>, <<"roam_off", 1>>,
         <<"infra", 1>>, <<"promisc", 0>>, <<"up", 1>>>>

Init == /\ pc = "send" /\ cmd = [op |-> "init"] /\ \E id \in ChipIds : todo = InitSettings(id)
        /\ ctl = [essid |-> "", chan |-> 0, crypt |-> 0, key |-> "none", scansecs |-> 0, status |-> "disconnected"]
        /\ fw = [auth |-> 0, wsec |-> 0, wpa_auth |-> 0, wpaie |-> "none", up |-> 0, wsec_key |-> [n |-> "none", algo |-> "none"], joined |-> <<>>]
        /\ lpc = "sleep" /\ secs = 0 /\ bufs = 0 /\ count = 0
        /\ note = [before |-> <<>>, wep |-> FALSE, bad |-> FALSE]

-----------------------------------------------------------------------------
(* What a command does: what happens to the Ctlr, which settings are sent, *)
(* and how it goes on: "join", "end" or "refused".                         *)

Does(c, sends, then) == [ctl |-> c, sends |-> sends, then |-> then]
Refused(c) == Does(c, <<>>, "refused")
JoinIfNamed(c) == IF c.essid = "" THEN "end" ELSE "join"

\* setcrypt, with its setting.
Crypts == [wep |-> Wep, on |-> Wep, off |-> 0, none |-> 0]
SetCrypt(c, a) == [c EXCEPT !.crypt = Crypts[a]]
CryptSends(a) == <<<<"auth", Crypts[a]>>>>

\* setauth: an element of another kind leaves cryptotype as it is, and goes on.
SetAuth(c, ie) == CASE ie = "dd" -> [c EXCEPT !.crypt = Wpa]
                    [] ie = "30" -> [c EXCEPT !.crypt = Wpa2]
                    [] OTHER     -> c

\* The open authentication is not asked for.
AuthSendsNoOpen(c, ie) ==
    IF c.crypt = Wpa THEN <<<<"wpaie", ie>>, <<"wpa_auth", 6>>, <<"wsec", 2>>, <<"wpa_auth", 4>>>>
    ELSE <<<<"wpaie", ie>>, <<"wpa_auth", 192>>, <<"wsec", 4>>, <<"wpa_auth", 128>>>>

AuthSends(c, ie) ==
    IF c.crypt = Wpa
      THEN <<<<"wpaie", ie>>, <<"wpa_auth", 6>>, <<"auth", 0>>, <<"wsec", 2>>, <<"wpa_auth", 4>>>>
      ELSE <<<<"wpaie", ie>>, <<"wpa_auth", 192>>, <<"auth", 0>>, <<"wsec", 4>>, <<"wpa_auth", 128>>>>

Auth(x) == LET c == SetAuth(ctl, x.ie) IN Does(c, AuthSends(c, x.ie), JoinIfNamed(c))

Channel(x) == IF x.ok THEN Does([ctl EXCEPT !.chan = x.chan], <<>>, "end") ELSE Refused(ctl)

Crypt(x) == IF x.arg \in DOMAIN Crypts
              THEN Does(SetCrypt(ctl, x.arg), CryptSends(x.arg), JoinIfNamed(ctl)) ELSE Refused(ctl)

\* Joins with an empty name too.
Essid(x) == Does([ctl EXCEPT !.essid = IF x.essid = "default" THEN "" ELSE x.essid], <<>>, "join")

\* The name is taken over before the other arguments are looked at.
Named(x) == [ctl EXCEPT !.essid = IF x.essid = "no change" THEN @ ELSE IF x.essid = "default" THEN "" ELSE x.essid]

\* The encryption is chosen before the channel is looked at.
JoinCryptFirst(x) ==
    LET c == IF x.crypt \in DOMAIN Crypts THEN SetCrypt(Named(x), x.crypt) ELSE SetAuth(Named(x), x.crypt)
    IN  IF ~x.ether \/ ~x.ok \/ Named(x).essid = "" THEN Refused(c)
        ELSE Does([c EXCEPT !.chan = x.chan],
                  IF x.crypt \in DOMAIN Crypts THEN CryptSends(x.crypt) ELSE AuthSends(c, x.crypt), JoinIfNamed(c))

Join(x) ==
    LET named == Named(x)
        c     == [named EXCEPT !.chan = x.chan]
        a     == SetAuth(c, x.crypt)
    IN  IF x.essid = "no change" /\ ctl.essid = "" THEN Refused(ctl)
        ELSE IF ~x.ether \/ ~x.ok THEN Refused(named)
        ELSE IF x.crypt \in DOMAIN Crypts
          THEN Does(SetCrypt(c, x.crypt), CryptSends(x.crypt), JoinIfNamed(c))
          ELSE Does(a, AuthSends(a, x.crypt), JoinIfNamed(c))

WepName == <<"key1", "key2", "key3", "key4">>

wlwepkey(n) == <<<<"wsec_key", [n |-> WepName[n], algo |-> "wep"]>>>>

\* key1 to key4: wsec is set for WEP, cryptotype is not.
WepKey(x) ==
    IF ~x.ok THEN Refused(ctl)
    ELSE Does(IF x.n = 1 THEN [ctl EXCEPT !.key = "wep"] ELSE ctl,
              <<<<"wsec", 1>>>> \o wlwepkey(x.n), "end")

\* Nothing is sent for rxkey.
wlwpakey(id) ==
    IF id = "rxkey" THEN <<>>
    ELSE <<<<"wsec_key", [n |-> id, algo |-> IF ctl.crypt = Wpa THEN "tkip" ELSE "aes"]>>>>

\* rxkey, rxkey0 to rxkey3 and txkey, all through keys[0]; a key that ends
\* too early is kept although it is refused.
WpaKey(x) ==
    LET c == [ctl EXCEPT !.key = "wpa"]
    IN  IF ~x.ether \/ x.key = "bad" THEN Refused(ctl)
        ELSE IF x.key = "no iv" THEN Refused(c)
        ELSE Does(c, wlwpakey(x.id), "end")

\* etherbcmscan.
Escan(x) == Does([ctl EXCEPT !.scansecs = x.secs], <<>>, "end")

\* wlsetcountry: a bad code is only reported.
Country(x) == Does(ctl, IF x.ok THEN <<<<"country", 1>>>> ELSE <<>>, "end")

Effect(x) == CASE x.op = "auth" -> Auth(x)    [] x.op = "channel" -> Channel(x) [] x.op = "crypt" -> Crypt(x)
               [] x.op = "essid" -> Essid(x)  [] x.op = "join" -> Join(x)       [] x.op = "wepkey" -> WepKey(x)
               [] x.op = "wpakey" -> WpaKey(x) [] x.op = "escan" -> Escan(x)
               [] x.op = "country" -> Country(x) [] OTHER -> Does(ctl, <<>>, "end")

\* What etherbcmctl will do after its settings.
After(x) == IF x.op = "init" THEN "end" ELSE x.then

-----------------------------------------------------------------------------
(* etherbcmctl.                                                            *)

Element(x) == IF x.op = "auth" THEN x.ie ELSE IF x.op = "join" THEN x.crypt ELSE "none"

\* A Cmdbuf is allocated, the command looked up and the Ctlr changed.  A
\* refused command returns at once, without giving the Cmdbuf back.
Command ==
    /\ pc = "ready" /\ count < MaxCommands /\ count' = count + 1
    /\ \E x \in Commands :
         LET e == Effect(x)
         IN  /\ ctl' = e.ctl /\ todo' = e.sends /\ cmd' = [op |-> x.op, then |-> e.then]
             /\ pc' = IF e.then = "refused" THEN "refused" ELSE "send"
             /\ note' = [before |-> [fw |-> fw, crypt |-> ctl.crypt, chan |-> ctl.chan],
                         wep |-> IF e.then = "refused" THEN note.wep
                                 ELSE x.op = "wepkey" \/ (note.wep /\ Element(x) \in {"none", "off", "wep"}),
                         bad |-> IF e.then = "refused" \/ (Element(x) = "none" /\ x.op # "crypt") THEN note.bad
                                 ELSE Element(x) \notin {"none", "off", "wep", "30", "dd"}]
    /\ bufs' = bufs + 1 /\ UNCHANGED <<fw, lpc, secs>>

\* One wlcmd.
Send ==
    /\ pc = "send" /\ todo # <<>> /\ todo' = Tail(todo)
    /\ fw' = IF Head(todo)[1] \in DOMAIN fw THEN [fw EXCEPT ![Head(todo)[1]] = Head(todo)[2]] ELSE fw
    /\ UNCHANGED <<pc, cmd, ctl, lpc, secs, bufs, count, note>>

\* wljoin sends its parameters, and then calls the driver connecting.
SendJoin ==
    /\ pc = "send" /\ todo = <<>> /\ After(cmd) = "join"
    /\ fw' = [fw EXCEPT !.joined = <<[essid |-> ctl.essid, crypt |-> ctl.crypt, auth |-> fw.auth,
                                      wsec |-> fw.wsec, wpa_auth |-> fw.wpa_auth]>>]
    /\ ctl' = [ctl EXCEPT !.status = "connecting"] /\ pc' = "joining"
    /\ UNCHANGED <<cmd, todo, lpc, secs, bufs, count, note>>

\* The result.
Joined == /\ pc = "joining" /\ \E s \in {"connected", "disconnected"} : ctl' = [ctl EXCEPT !.status = s]
          /\ pc' = "ready" /\ bufs' = bufs - 1
          /\ UNCHANGED <<cmd, todo, fw, lpc, secs, count, note>>

Finish == /\ pc = "send" /\ todo = <<>> /\ After(cmd) = "end" /\ pc' = "ready"
          /\ bufs' = (IF cmd.op = "init" THEN bufs ELSE bufs - 1)
          /\ UNCHANGED <<cmd, todo, ctl, fw, lpc, secs, count, note>>

Return == pc = "refused" /\ pc' = "ready" /\ UNCHANGED <<cmd, todo, ctl, fw, lpc, secs, bufs, count, note>>

-----------------------------------------------------------------------------
(* lproc, after each tsleep.                                               *)

\* secs is only counted when a scan begins.
TickKept ==
    /\ lpc = "sleep"
    /\ IF ctl.scansecs = 0 THEN secs' = 0 /\ UNCHANGED lpc
       ELSE IF secs = 0 THEN lpc' = "passive" /\ UNCHANGED secs
       ELSE UNCHANGED <<secs, lpc>>
    /\ UNCHANGED <<pc, cmd, todo, ctl, fw, bufs, count, note>>

\* All negative values are one: it would take years to count them through.
Less(s) == IF s > -1 THEN s - 1 ELSE -1

Tick ==
    /\ lpc = "sleep"
    /\ IF ctl.scansecs = 0 THEN secs' = 0 /\ UNCHANGED lpc
       ELSE IF secs = 0 THEN lpc' = "passive" /\ UNCHANGED secs
       ELSE secs' = Less(secs) /\ UNCHANGED lpc
    /\ UNCHANGED <<pc, cmd, todo, ctl, fw, bufs, count, note>>

\* wlscanstart: two commands, and scansecs is read again behind them.
Passive == /\ lpc = "passive" /\ lpc' = "escan"
           /\ UNCHANGED <<pc, cmd, todo, ctl, fw, secs, bufs, count, note>>
Scan == /\ lpc = "escan" /\ lpc' = "sleep" /\ secs' = Less(ctl.scansecs)
        /\ UNCHANGED <<pc, cmd, todo, ctl, fw, bufs, count, note>>

-----------------------------------------------------------------------------
Control == Send \/ SendJoin \/ Joined \/ Finish \/ Return
Lproc == Tick \/ Passive \/ Scan
Next == Command \/ Control \/ Lproc

\* Both tasks run (ReadyRuns of Scheduler) and their commands are answered
\* (CommandsComplete of WifiDriver).
Spec == Init /\ [][Next]_vars /\ WF_vars(Control) /\ WF_vars(Lproc)

-----------------------------------------------------------------------------
(* Properties.                                                             *)

\* The firmware joins with the security the driver believes in: with WPA or
\* WPA2 encryption, key management and open authentication fit cryptotype, a
\* WEP key set in between excepted (it sets wsec, and nothing else); without
\* them the authentication is the one of crypt, an unknown element excepted.
SecurityAgrees ==
    pc = "joining" =>
      LET j == fw.joined[1]
      IN  /\ j.crypt = Wpa => j.wpa_auth = 4 /\ j.auth = 0 /\ (j.wsec = 2 \/ note.wep)
          /\ j.crypt = Wpa2 => j.wpa_auth = 128 /\ j.auth = 0 /\ (j.wsec = 4 \/ note.wep)
          /\ j.crypt \in {0, Wep} => j.auth = j.crypt \/ note.bad

\* A command that is refused has changed neither a setting of the firmware
\* nor the encryption nor the channel, although it looks at one argument
\* after the other.  (The name of the network, and keys[0], it may have.)
RefusedChangesNothing ==
    pc = "refused" => /\ fw = note.before.fw
                      /\ ctl.crypt = note.before.crypt /\ ctl.chan = note.before.chan

\* As long as scans are asked for they are started again and again, unless
\* scansecs was 0 when a scan returned: secs is then negative, and stays so if
\* scans are asked for before lproc has seen the 0.
Scanning == ctl.scansecs = 0 \/ lpc = "escan" \/ secs < 0
=============================================================================
