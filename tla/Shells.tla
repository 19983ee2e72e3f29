-------------------------------- MODULE Shells --------------------------------
(***************************************************************************)
(* ShAbility and the BashAbility above it (ability/sh_ability.go,          *)
(* ability/bash_ability.go), over the allowlist of CmdAbility              *)
(* (ability/cmd_ability.go). Each keeps a list of its own under a lock of  *)
(* its own: a change of one writes the next in a later section, and a run  *)
(* passes all three in turn, with the text of the command wrapped for Bash *)
(* on the way.                                                             *)
(*                                                                         *)
(* A command is its first word and, for the rest, a sequence of characters *)
(* by what a shell makes of them. The jobs are in CmdJobs.                 *)
(***************************************************************************)
EXTENDS Integers, Sequences

CONSTANTS
  Clients,
  Names,     \* of shells, "sh" among them
  Words,     \* first words of commands, "bash" among them
  MaxText    \* bound on the length of a text

ShellAssumption == "sh" \in Names /\ "bash" \in Words /\ MaxText \in Nat \ {0}

VARIABLES
  shell, allowlist,   \* ShAbility
  userlist,           \* BashAbility.allowlist
  listed,             \* CmdAbility.allowlist: the shells it starts
  text,               \* the text of every command, or none: then it is one of Usual
  call,               \* where each client is
  crossed             \* history: changes have overlapped since the last one that was alone

vars == <<shell, allowlist, userlist, listed, text, call, crossed>>
lists == <<shell, allowlist, userlist, listed, text>>

\* A metacharacter that links, redirects or substitutes, a newline included; a
\* dollar or backquote is one also between double quotes.
Chars == {"plain", "single", "double", "backslash", "link", "dollar"}
Texts == UNION {[1 .. n -> Chars] : n \in 1 .. MaxText}
Usual == {<<"plain">>, <<"single">>, <<"link">>}
Idle == [phase |-> "idle"]

Init ==
  /\ shell = "sh" /\ allowlist = {"bash"} /\ userlist = {} /\ listed = {"sh"}
  /\ text \in Texts \cup {<<>>}
  /\ call = [c \in Clients |-> Idle]
  /\ crossed = FALSE

Goto(c, phase) == call' = [call EXCEPT ![c].phase = phase]

-----------------------------------------------------------------------------
(* hasShellChaining, one character of its loop.                               *)
Scan(s, ch) ==
  IF s.skip THEN [s EXCEPT !.skip = FALSE]
  ELSE CASE s.quoted = "single" -> IF ch = "single" THEN [s EXCEPT !.quoted = "no"] ELSE s
         [] s.quoted = "double" -> CASE ch = "backslash" -> [s EXCEPT !.skip = TRUE]
                                     [] ch = "double"    -> [s EXCEPT !.quoted = "no"]
                                     [] ch = "dollar"    -> [s EXCEPT !.found = TRUE]
                                     [] OTHER            -> s
         [] s.quoted = "no" -> CASE ch = "backslash"            -> [s EXCEPT !.skip = TRUE]
                                 [] ch \in {"single", "double"} -> [s EXCEPT !.quoted = ch]
                                 [] ch \in {"link", "dollar"}   -> [s EXCEPT !.found = TRUE]
                                 [] OTHER                       -> s

Scanned(txt) ==
  LET after[i \in 0 .. Len(txt)] ==
        IF i = 0 THEN [skip |-> FALSE, quoted |-> "no", found |-> FALSE]
        ELSE Scan(after[i - 1], txt[i])
  IN after

hasShellChaining(txt) == Scanned(txt)[Len(txt)].found

\* Variant: a quote in the text is left as it is.
QuoteKept(ch) == <<ch>>

QuotedChar(ch) ==
  IF ch = "single" THEN <<"single", "backslash", "single", "single">> ELSE <<ch>>

Quoted(txt) ==
  LET out[i \in 0 .. Len(txt)] == IF i = 0 THEN <<"single">> ELSE out[i - 1] \o QuotedChar(txt[i])
  IN out

shellQuote(txt) == Append(Quoted(txt)[Len(txt)], "single")

(* What a shell reads: quotes gone, escaped characters themselves, and the    *)
(* rest of the characters as they are, or active.                             *)
Read(s, ch) ==
  LET keep(what) == [s EXCEPT !.out = Append(@, what), !.skip = FALSE]
  IN IF s.skip THEN keep(ch)
     ELSE CASE s.quoted = "single" -> IF ch = "single" THEN [s EXCEPT !.quoted = "no"] ELSE keep(ch)
            [] s.quoted = "double" -> CASE ch = "backslash" -> [s EXCEPT !.skip = TRUE]
                                        [] ch = "double"    -> [s EXCEPT !.quoted = "no"]
                                        [] ch = "dollar"    -> keep("active")
                                        [] OTHER            -> keep(ch)
            [] s.quoted = "no" -> CASE ch = "backslash"            -> [s EXCEPT !.skip = TRUE]
                                    [] ch \in {"single", "double"} -> [s EXCEPT !.quoted = ch]
                                    [] ch \in {"link", "dollar"}   -> keep("active")
                                    [] OTHER                       -> keep(ch)

ReadTo(txt) ==
  LET after[i \in 0 .. Len(txt)] ==
        IF i = 0 THEN [skip |-> FALSE, quoted |-> "no", out |-> <<>>]
        ELSE Read(after[i - 1], txt[i])
  IN after

Reading(txt) == ReadTo(txt)[Len(txt)]

-----------------------------------------------------------------------------
(* Changes of the lists. None comes where one text is followed.               *)
Setting(d) == call[d].phase \in {"sync", "refresh", "list"}

\* A change begins: runs under way are no longer undisturbed.
SetBegins(c, phase) ==
  /\ call[c] = Idle /\ text = <<>>
  /\ call' = [d \in Clients |->
                IF d = c THEN [phase |-> phase, shell |-> "none"]
                ELSE IF call[d] = Idle \/ Setting(d) THEN call[d]
                ELSE [call[d] EXCEPT !.calm = FALSE]]
  /\ crossed' = \E d \in Clients : Setting(d)

SetShell(c, name) ==
  /\ SetBegins(c, "refresh")
  /\ shell' = name
  /\ UNCHANGED <<allowlist, userlist, listed, text>>

SetAllowed(c, words) ==
  /\ SetBegins(c, "refresh")
  /\ allowlist' = words
  /\ UNCHANGED <<shell, userlist, listed, text>>

BashSetAllowed(c, words) ==
  /\ SetBegins(c, "sync")
  /\ userlist' = words
  /\ UNCHANGED <<shell, allowlist, listed, text>>

syncUnderlyingAllowlist(c) ==
  /\ call[c].phase = "sync"
  /\ allowlist' = {"bash"}
  /\ Goto(c, "refresh")
  /\ UNCHANGED <<shell, userlist, listed, text, crossed>>

RefreshReads(c) ==
  /\ call[c].phase = "refresh"
  /\ call' = [call EXCEPT ![c].phase = "list", ![c].shell = shell]
  /\ UNCHANGED <<lists, crossed>>

\* Variant: the list of CmdAbility is written only once.
RefreshSkipped(name) == UNCHANGED listed

Refreshed(name) == listed' = {name}

SetAllowlist(c) ==
  /\ call[c].phase = "list"
  /\ Refreshed(call[c].shell)
  /\ call' = [call EXCEPT ![c] = Idle]
  /\ UNCHANGED <<shell, allowlist, userlist, text, crossed>>

-----------------------------------------------------------------------------
(* Runs, and starts. The phase says what a run meets next.                    *)
RunBegins(c, phase, word, given) ==
  /\ call[c] = Idle
  /\ call' = [call EXCEPT ![c] =
       [phase |-> phase, user |-> phase, by |-> "none", word |-> word,
        given |-> given, text |-> given, shell |-> "none",
        calm |-> ~crossed /\ \A d \in Clients : ~Setting(d)]]
  /\ UNCHANGED <<lists, crossed>>

Admits(list, word, txt) == list = {} \/ (word \in list /\ ~hasShellChaining(txt))

Refuse(c, by) == call' = [call EXCEPT ![c].phase = "refused", ![c].by = by]

(* BashAbility.checkInner, wrapForBash.                                       *)
checkInner(c) ==
  /\ call[c].phase = "bash"
  /\ IF Admits(userlist, call[c].word, call[c].text)
     THEN call' = [call EXCEPT ![c].phase = "sh", ![c].word = "bash",
                               ![c].text = shellQuote(@)]
     ELSE Refuse(c, "bash")
  /\ UNCHANGED <<lists, crossed>>

matchInner(c) ==
  /\ call[c].phase = "sh"
  /\ IF Admits(allowlist, call[c].word, call[c].text) THEN Goto(c, "shell") ELSE Refuse(c, "sh")
  /\ UNCHANGED <<lists, crossed>>

ReadShell(c) ==
  /\ call[c].phase = "shell"
  /\ call' = [call EXCEPT ![c].phase = "cmd", ![c].shell = shell]
  /\ UNCHANGED <<lists, crossed>>

(* CmdAbility.checkAllowlist: "-c" and one argument always fit.               *)
CmdCommand(c) ==
  /\ call[c].phase = "cmd"
  /\ IF call[c].shell \in listed THEN Goto(c, "started") ELSE Refuse(c, "cmd")
  /\ UNCHANGED <<lists, crossed>>

Return(c) ==
  /\ call[c].phase \in {"started", "refused"}
  /\ call' = [call EXCEPT ![c] = Idle]
  /\ UNCHANGED <<lists, crossed>>

Client(c) ==
  \/ \E name \in Names : SetShell(c, name)
  \/ \E words \in SUBSET Words : SetAllowed(c, words) \/ BashSetAllowed(c, words)
  \/ \E user \in {"bash", "sh"}, word \in Words, given \in Usual \cup {text} :
       /\ IF text = <<>> THEN given # <<>> ELSE given = text /\ \A d \in Clients : call[d] = Idle
       /\ RunBegins(c, user, word, given)
  \/ syncUnderlyingAllowlist(c) \/ RefreshReads(c) \/ SetAllowlist(c)
  \/ checkInner(c) \/ matchInner(c) \/ ReadShell(c) \/ CmdCommand(c) \/ Return(c)

Next == \E c \in Clients : Client(c)

Spec == Init /\ [][Next]_vars
-----------------------------------------------------------------------------
TypeOK ==
  /\ shell \in Names /\ allowlist \subseteq Words /\ userlist \subseteq Words
  /\ listed \subseteq Names /\ crossed \in BOOLEAN

(* "sh -c is always allowed": with no change under way, and none that has     *)
(* overlapped another, CmdAbility starts the shell in force.                  *)
ShellListed == ~crossed /\ (\A c \in Clients : ~Setting(c)) => listed = {shell}

(* What Bash's own list admits is refused further down only by Sh's list,     *)
(* when that was set to keep "bash" out, or while a list changed: no wrapped  *)
(* text is mistaken for a chain of commands.                                  *)
AdmittedIsStarted ==
  \A c \in Clients :
    call[c].phase = "refused" /\ call[c].calm =>
      /\ call[c].by # "cmd"
      /\ call[c].user = "bash" /\ call[c].by = "sh" => allowlist # {} /\ "bash" \notin allowlist

Running == {c \in Clients : call[c].phase \in {"bash", "sh", "shell", "cmd", "started", "refused"}}

(* The bash that sh starts reads the text as it was given, as one word.       *)
TextSurvives ==
  \A c \in Running :
    call[c].user = "bash" /\ call[c].phase \in {"sh", "shell", "cmd", "started"} =>
      /\ Reading(call[c].text).out = call[c].given
      /\ Reading(call[c].text).quoted = "no"

(* The scan finds a metacharacter in a text just when a shell that reads it   *)
(* would see one outside quotes.                                              *)
ScanAgrees ==
  \A c \in Running :
    LET out == Reading(call[c].given).out
    IN hasShellChaining(call[c].given) <=> \E i \in DOMAIN out : out[i] = "active"

ShellsHold == ShellListed /\ AdmittedIsStarted /\ TextSurvives /\ ScanAgrees
=============================================================================
