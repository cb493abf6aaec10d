------------------------ MODULE TelegramCommandsProofs ------------------------
(***************************************************************************)
(* The safety properties of TelegramCommands for any number of commands.   *)
(* TgInv adds to them how the offset, the confirmed updates and the batch  *)
(* in hand fit together: a batch is a gapless run of updates that begins   *)
(* where the process stands.                                               *)
(***************************************************************************)
EXTENDS TelegramCommands, TLAPS

\* Where the process stands: the update it will handle next.
NextUpdate == IF offset = 0 THEN born + 1 ELSE offset

InStep ==
  /\ born <= confirmed
  /\ offset = 0 => confirmed = born
  /\ offset # 0 => born < offset /\ confirmed < offset
  /\ NextUpdate <= known + 1
  /\ known <= Len(chat)
  /\ \A i \in 1 .. Len(batch) : batch[i] = NextUpdate + i - 1
  /\ LastSwitch(born + 1, offset - 1) \in 0 .. Len(chat)

TgInv == TgTypeOK /\ InStep /\ KillSwitchFollowsChat /\ ConfirmedWasHandled

-----------------------------------------------------------------------------
LEMMA MaxOfTwo ==
  ASSUME NEW a \in Int, NEW b \in Int
  PROVE  Max({a, b}) = IF a >= b THEN a ELSE b
<1>1. \E x \in {a, b} : \A y \in {a, b} : x >= y
  OBVIOUS
<1> QED BY <1>1 DEF Max

\* Nothing switched yet.
LEMMA LastSwitchOfNone ==
  ASSUME NEW m \in Int, NEW n \in Int, n < m
  PROVE  LastSwitch(m, n) = 0
<1>1. {0} \cup {k \in m .. n : k \in DOMAIN chat /\ chat[k] # "other"} = {0}
  OBVIOUS
<1> QED BY <1>1 DEF LastSwitch, Max

\* The next update is the last switch, or changes nothing.
LEMMA LastSwitchOfNext ==
  ASSUME NEW m \in Nat, NEW n \in Nat, m <= n + 1,
         chat \in Seq(Commands), n + 1 \in 1 .. Len(chat)
  PROVE  LastSwitch(m, n + 1) =
           IF chat[n + 1] = "other" THEN LastSwitch(m, n) ELSE n + 1
<1> DEFINE S(l) == {k \in m .. l : k \in DOMAIN chat /\ chat[k] # "other"}
<1>1. CASE chat[n + 1] = "other"
  <2>1. S(n + 1) = S(n)
    BY <1>1
  <2> QED BY <1>1, <2>1 DEF LastSwitch
<1>2. CASE chat[n + 1] # "other"
  <2>1. n + 1 \in {0} \cup S(n + 1)
    BY <1>2
  <2>2. \A y \in {0} \cup S(n + 1) : y \in Int /\ n + 1 >= y
    OBVIOUS
  <2>3. \A x \in {0} \cup S(n + 1) :
          (\A y \in {0} \cup S(n + 1) : x >= y) => x = n + 1
    BY <2>1, <2>2
  <2>4. Max({0} \cup S(n + 1)) = n + 1
    BY <2>1, <2>2, <2>3 DEF Max
  <2> QED BY <1>2, <2>4 DEF LastSwitch
<1> QED BY <1>1, <1>2

-----------------------------------------------------------------------------
LEMMA TgInvInit == TgInit => TgInv
<1> SUFFICES ASSUME TgInit PROVE TgInv
  OBVIOUS
<1>1. TgTypeOK
  <2>1. chat \in Seq(Commands)
    BY DEF TgInit
  <2>2. batch \in Seq(1 .. Len(chat))
    BY DEF TgInit
  <2> QED BY <2>1, <2>2 DEF TgInit, TgTypeOK
<1>2. LastSwitch(born + 1, offset - 1) = 0
  BY LastSwitchOfNone DEF TgInit
<1>3. InStep /\ ConfirmedWasHandled
  BY <1>2 DEF TgInit, InStep, NextUpdate, ConfirmedWasHandled
<1>4. KillSwitchFollowsChat
  BY <1>2 DEF TgInit, KillSwitchFollowsChat
<1> QED BY <1>1, <1>3, <1>4 DEF TgInv

LEMMA SendKeeps == TgInv /\ SendCommand => TgInv'
<1> SUFFICES ASSUME TgInv, SendCommand PROVE TgInv'
  OBVIOUS
<1> USE DEF TgInv, TgTypeOK
<1>1. PICK c \in Commands : chat' = Append(chat, c)
  BY DEF SendCommand
<1>2. UNCHANGED <<confirmed, offset, batch, killOn, known, born>>
  BY DEF SendCommand
<1>3. Len(chat') = Len(chat) + 1
  BY <1>1
<1>4. TgTypeOK'
  BY <1>1, <1>2, <1>3
<1>5. offset - 1 <= Len(chat)
  BY DEF InStep, NextUpdate
<1>6. \A k \in Int : k <= Len(chat) =>
        /\ k \in DOMAIN chat' <=> k \in DOMAIN chat
        /\ k \in DOMAIN chat => chat'[k] = chat[k]
  BY <1>1, <1>3
<1>7. LastSwitch(born + 1, offset - 1)' = LastSwitch(born + 1, offset - 1)
  <2>1. {k \in born + 1 .. offset - 1 :
           k \in DOMAIN chat' /\ chat'[k] # "other"}
      = {k \in born + 1 .. offset - 1 : k \in DOMAIN chat /\ chat[k] # "other"}
    BY <1>5, <1>6
  <2>2. born' = born /\ offset' = offset
    BY <1>2
  <2>3. LastSwitch(born + 1, offset - 1)' =
          Max({0} \cup {k \in born + 1 .. offset - 1 :
                          k \in DOMAIN chat' /\ chat'[k] # "other"})
    BY <2>2 DEF LastSwitch
  <2> QED BY <2>1, <2>3 DEF LastSwitch
<1>8. InStep' /\ ConfirmedWasHandled'
  BY <1>2, <1>3, <1>7 DEF InStep, NextUpdate, ConfirmedWasHandled
<1>9. KillSwitchFollowsChat'
  BY <1>2, <1>6, <1>7 DEF InStep, KillSwitchFollowsChat
<1> QED BY <1>4, <1>8, <1>9

\* What a request confirms was handled before.
LEMMA ConfirmedBefore ==
  ASSUME TgInv, Confirm
  PROVE  confirmed' = IF offset = 0 THEN born ELSE offset - 1
<1> confirmed \in Nat /\ offset \in Nat /\ born \in Nat
  BY DEF TgInv, TgTypeOK
<1>1. confirmed' = IF confirmed >= offset - 1 THEN confirmed ELSE offset - 1
  BY MaxOfTwo DEF Confirm
<1> QED BY <1>1 DEF TgInv, InStep

\* The updates after one of them are a sequence of updates.
LEMMA RunOfUpdates ==
  ASSUME NEW c \in Nat, NEW l \in Nat, c <= l
  PROVE  LET run == [n \in 1 .. l - c |-> c + n] IN
           run \in Seq(1 .. l) /\ Len(run) = l - c
<1> DEFINE run == [n \in 1 .. l - c |-> c + n]
<1>1. l - c \in Nat /\ \A n \in 1 .. l - c : c + n \in 1 .. l
  OBVIOUS
<1>2. run \in [1 .. l - c -> 1 .. l]
  BY <1>1
<1> QED BY <1>1, <1>2

LEMMA GetUpdatesKeeps == TgInv /\ GetUpdates => TgInv'
<1> SUFFICES ASSUME TgInv, GetUpdates PROVE TgInv'
  OBVIOUS
<1> USE DEF TgInv, TgTypeOK
<1>1. UNCHANGED <<chat, offset, killOn, known, born>>
  BY DEF GetUpdates
<1>2. confirmed' = IF offset = 0 THEN born ELSE offset - 1
  BY ConfirmedBefore DEF GetUpdates
<1>3. /\ confirmed' \in Nat /\ confirmed' <= Len(chat)
      /\ NextUpdate = confirmed' + 1
  BY <1>2 DEF InStep, NextUpdate
<1>4. batch' = [n \in 1 .. Len(chat) - confirmed' |-> confirmed' + n]
  BY DEF GetUpdates
<1>5. batch' \in Seq(1 .. Len(chat)) /\ Len(batch') = Len(chat) - confirmed'
  <2>1. Len(chat) \in Nat
    OBVIOUS
  <2> HIDE DEF TgTypeOK, TgInv
  <2> QED BY <1>3, <1>4, <2>1, RunOfUpdates
<1>6. TgTypeOK'
  BY <1>1, <1>3, <1>5
<1>7. LastSwitch(born + 1, offset - 1)' = LastSwitch(born + 1, offset - 1)
  BY <1>1 DEF LastSwitch
<1>8. InStep'
  <2>1. \A i \in 1 .. Len(batch') : batch'[i] = confirmed' + i
    BY <1>4, <1>5
  <2>2. NextUpdate' = NextUpdate
    BY <1>1 DEF NextUpdate
  <2>3. \A i \in 1 .. Len(batch') : batch'[i] = NextUpdate' + i - 1
    BY <1>3, <1>5, <2>1, <2>2
  <2>4. /\ born' <= confirmed'
        /\ offset' = 0 => confirmed' = born'
        /\ offset' # 0 => born' < offset' /\ confirmed' < offset'
        /\ NextUpdate' <= known' + 1 /\ known' <= Len(chat')
    BY <1>1, <1>2, <2>2 DEF InStep
  <2>5. LastSwitch(born + 1, offset - 1)' \in 0 .. Len(chat')
    BY <1>1, <1>7 DEF InStep
  <2> QED BY <2>3, <2>4, <2>5 DEF InStep
<1>9. ConfirmedWasHandled' /\ KillSwitchFollowsChat'
  BY <1>1, <1>2, <1>7 DEF InStep, NextUpdate, ConfirmedWasHandled,
                          KillSwitchFollowsChat
<1> QED BY <1>6, <1>8, <1>9

LEMMA GetUpdatesFailsKeeps == TgInv /\ GetUpdatesFails => TgInv'
<1> SUFFICES ASSUME TgInv, GetUpdatesFails PROVE TgInv'
  OBVIOUS
<1> USE DEF TgInv, TgTypeOK
<1>1. UNCHANGED <<chat, offset, batch, killOn, known, born>>
  BY DEF GetUpdatesFails
<1>2. confirmed' = IF offset = 0 THEN born ELSE offset - 1
  BY ConfirmedBefore DEF GetUpdatesFails
<1>3. TgTypeOK'
  BY <1>1, <1>2
<1>4. LastSwitch(born + 1, offset - 1)' = LastSwitch(born + 1, offset - 1)
  BY <1>1 DEF LastSwitch
<1>5. InStep' /\ ConfirmedWasHandled' /\ KillSwitchFollowsChat'
  BY <1>1, <1>2, <1>4 DEF InStep, NextUpdate, ConfirmedWasHandled,
                          KillSwitchFollowsChat
<1> QED BY <1>3, <1>5

\* The batch in hand begins with the next update, which moves the offset.
LEMMA HandleKeeps == TgInv /\ HandleUpdate => TgInv'
<1> SUFFICES ASSUME TgInv, HandleUpdate PROVE TgInv'
  OBVIOUS
<1> USE DEF TgInv, TgTypeOK
<1> DEFINE n == Head(batch)
           last == LastSwitch(born + 1, offset - 1)
<1>1. /\ UNCHANGED <<chat, confirmed, born>>
      /\ batch # <<>> /\ batch' = Tail(batch)
  BY DEF HandleUpdate
<1>2. n = NextUpdate /\ n \in 1 .. Len(chat)
  <2>1. n = batch[1] /\ 1 \in 1 .. Len(batch)
    BY <1>1
  <2> QED BY <2>1 DEF InStep, NextUpdate
<1>3. n \in Nat /\ offset <= n /\ n <= known + 1 /\ born < n
  BY <1>2 DEF InStep, NextUpdate
<1>4. offset' = n + 1
  <2>1. offset' = Max({offset, n + 1})
    BY DEF HandleUpdate
  <2> QED BY <1>3, <2>1, MaxOfTwo
<1>5. known' = IF n = known + 1 THEN n ELSE known
  BY DEF HandleUpdate
<1>6. killOn' = CASE chat[n] = "pause"  -> TRUE
                  [] chat[n] = "resume" -> FALSE
                  [] OTHER              -> killOn
  BY DEF HandleUpdate
<1>7. batch' \in Seq(1 .. Len(chat)) /\ Len(batch') = Len(batch) - 1
      /\ \A i \in 1 .. Len(batch') : batch'[i] = batch[i + 1]
  BY <1>1
<1>8. TgTypeOK'
  <2>1. killOn' \in BOOLEAN
    BY <1>6
  <2>2. offset' \in Nat /\ known' \in Nat
    BY <1>3, <1>4, <1>5
  <2> QED BY <1>1, <1>7, <2>1, <2>2
<1>9. LastSwitch(born + 1, n - 1) = last
  <2>1. CASE offset = 0
    BY <1>2, <2>1, LastSwitchOfNone DEF NextUpdate
  <2>2. CASE offset # 0
    BY <1>2, <2>2 DEF NextUpdate
  <2> QED BY <2>1, <2>2
<1>10. LastSwitch(born + 1, offset - 1)'
         = IF chat[n] = "other" THEN last ELSE n
  <2>1. LastSwitch(born + 1, (n - 1) + 1)
         = IF chat[(n - 1) + 1] = "other" THEN LastSwitch(born + 1, n - 1)
           ELSE (n - 1) + 1
    BY <1>2, <1>3, LastSwitchOfNext
  <2>2. (n - 1) + 1 = n /\ (n + 1) - 1 = n
    BY <1>3
  <2>3. LastSwitch(born + 1, offset - 1)' = LastSwitch(born + 1, n)
    BY <1>1, <1>4, <2>2 DEF LastSwitch
  <2> QED BY <1>9, <2>1, <2>2, <2>3
<1>11. InStep'
  <2>1. NextUpdate' = n + 1
    BY <1>3, <1>4 DEF NextUpdate
  <2>2. \A i \in 1 .. Len(batch') : batch'[i] = NextUpdate' + i - 1
    <3> TAKE i \in 1 .. Len(batch')
    <3>1. i + 1 \in 1 .. Len(batch) /\ batch'[i] = batch[i + 1]
      <4>1. Len(batch) \in Nat /\ i \in 1 .. Len(batch) - 1
        BY <1>7
      <4> HIDE DEF TgTypeOK, TgInv
      <4>2. i + 1 \in 1 .. Len(batch)
        BY <4>1
      <4> QED BY <1>7, <4>2
    <3>2. \A j \in 1 .. Len(batch) : batch[j] = NextUpdate + j - 1
      BY DEF InStep
    <3>3. batch[i + 1] = NextUpdate + (i + 1) - 1
      BY <3>1, <3>2
    <3>4. i \in Nat /\ NextUpdate + (i + 1) - 1 = (n + 1) + i - 1
      BY <1>2, <1>3
    <3> QED BY <2>1, <3>1, <3>3, <3>4
  <2>3. LastSwitch(born + 1, offset - 1)' \in 0 .. Len(chat)
    BY <1>2, <1>10 DEF InStep
  <2>4. /\ born' <= confirmed'
        /\ offset' = 0 => confirmed' = born'
        /\ offset' # 0 => born' < offset' /\ confirmed' < offset'
    <3>1. confirmed < n + 1 /\ born < n + 1 /\ n + 1 # 0
      <4>1. /\ confirmed \in Nat /\ born \in Nat /\ offset \in Nat
            /\ offset = 0 => confirmed = born
            /\ offset # 0 => confirmed < offset
        BY DEF InStep
      <4> HIDE DEF TgTypeOK, TgInv
      <4> QED BY <1>3, <4>1
    <3> QED BY <1>1, <1>4, <3>1 DEF InStep
  <2>5. NextUpdate' <= known' + 1 /\ known' <= Len(chat')
    <3>1. known \in Nat /\ known <= Len(chat) /\ Len(chat) \in Nat
      BY DEF InStep
    <3> HIDE DEF TgTypeOK, TgInv
    <3> QED BY <1>1, <1>2, <1>3, <1>5, <2>1, <3>1
  <2> QED BY <1>1, <2>2, <2>3, <2>4, <2>5 DEF InStep
<1>12. ConfirmedWasHandled'
  BY <1>1, <1>3, <1>5 DEF ConfirmedWasHandled
<1>13. KillSwitchFollowsChat'
  <2>1. chat[n] \in Commands
    BY <1>2
  <2>2. CASE chat[n] = "other"
    BY <1>1, <1>6, <1>10, <2>2 DEF KillSwitchFollowsChat
  <2>3. CASE chat[n] # "other"
    <3>1. LastSwitch(born + 1, offset - 1)' = n /\ n # 0
      BY <1>2, <1>10, <2>3
    <3>2. killOn' = (chat[n] = "pause")
      BY <1>6, <2>1, <2>3 DEF Commands
    <3> QED BY <1>1, <3>1, <3>2 DEF KillSwitchFollowsChat
  <2> QED BY <2>2, <2>3
<1> QED BY <1>8, <1>11, <1>12, <1>13

LEMMA RestartKeeps == TgInv /\ PollerRestarts => TgInv'
<1> SUFFICES ASSUME TgInv, PollerRestarts PROVE TgInv'
  OBVIOUS
<1> USE DEF TgInv, TgTypeOK
<1>1. /\ offset' = 0 /\ batch' = <<>> /\ killOn' = FALSE
      /\ born' = confirmed /\ UNCHANGED <<chat, confirmed, known>>
  BY DEF PollerRestarts
<1>2. TgTypeOK'
  <2>1. <<>> \in Seq(1 .. Len(chat))
    OBVIOUS
  <2> QED BY <1>1, <2>1
<1>3. LastSwitch(born + 1, offset - 1)' = 0
  <2>1. LastSwitch(confirmed + 1, 0 - 1) = 0
    BY LastSwitchOfNone
  <2> QED BY <1>1, <2>1 DEF LastSwitch
<1>4. InStep' /\ ConfirmedWasHandled'
  BY <1>1, <1>3 DEF InStep, NextUpdate, ConfirmedWasHandled
<1>5. KillSwitchFollowsChat'
  BY <1>1, <1>3 DEF KillSwitchFollowsChat
<1> QED BY <1>2, <1>4, <1>5

LEMMA TgInvStep == TgInv /\ [TgNext]_tgVars => TgInv'
<1> SUFFICES ASSUME TgInv, [TgNext]_tgVars PROVE TgInv'
  OBVIOUS
<1>1. CASE UNCHANGED tgVars
  BY <1>1 DEF tgVars, TgInv, TgTypeOK, InStep, NextUpdate, LastSwitch,
              KillSwitchFollowsChat, ConfirmedWasHandled
<1> QED BY <1>1, SendKeeps, GetUpdatesKeeps, GetUpdatesFailsKeeps, HandleKeeps,
           RestartKeeps DEF TgNext, PollerStep

LEMMA TgSpecInv == TgSpec => []TgInv
BY TgInvInit, TgInvStep, PTL DEF TgSpec

-----------------------------------------------------------------------------
\* For any number of commands, restarts and lost answers: the offset sent to
\* getUpdates (app/commands.py, CommandsPoller._loop) confirms only updates that
\* were handled, so no command is lost.
THEOREM CommandsAreNotLost == TgSpec => []ConfirmedWasHandled
BY TgSpecInv, PTL DEF TgInv

\* The KillSwitch of a process is what the last /pause or /resume that it
\* handled made it, whatever was lost, delivered again or still to come.
THEOREM KillSwitchIsTheLastCommand == TgSpec => []KillSwitchFollowsChat
BY TgSpecInv, PTL DEF TgInv
===============================================================================
