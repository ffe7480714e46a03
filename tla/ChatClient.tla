------------------------------ MODULE ChatClient ------------------------------
(***************************************************************************)
(* The chat frontend (public/chat.js): browser tabs that share the chats   *)
(* in localStorage.  A tab keeps the id of its open chat and a mirror of   *)
(* its messages; what a tab stores is always the whole mirror.  A reply    *)
(* joins the chat that is open when it arrives.  JavaScript runs a tab's   *)
(* handlers one at a time; a handler's reads and writes of localStorage    *)
(* are one step.                                                           *)
(*                                                                         *)
(* The send button is disabled while a request is under way, but Enter     *)
(* sends all the same, so the model has no button.                         *)
(***************************************************************************)
EXTENDS Integers, Sequences, FiniteSets

CONSTANTS Tabs,         \* browser tabs
          Chats,        \* ids that createChatId may return
          MaxQuestions  \* bound of the model: messages the users send

ASSUME ClientAssumption == MaxQuestions \in Nat /\ "none" \notin Chats

Questions == 1..MaxQuestions
NoChat == "none"

Asked(n) == [role |-> "user", question |-> n]
Reply(n) == [role |-> "assistant", question |-> n]
Messages == [role : {"user", "assistant"}, question : Questions]

(***************************************************************************)
(* storage       hiq_chats, newest first: id, title and messages           *)
(* open, mirror  currentChatId and currentMessages of each tab             *)
(* pending[t]    questions whose answer tab t awaits                       *)
(* asked         number of questions sent so far                           *)
(* answered      history: replies that arrived, with the chat then open    *)
(* shared        history: chats that two tabs had open at once             *)
(***************************************************************************)
VARIABLES storage, open, mirror, pending, asked, answered, shared

tab == <<open, mirror>>
vars == <<storage, tab, pending, asked, answered, shared>>

Stored == {storage[i].id : i \in DOMAIN storage}
Index(c) == CHOOSE i \in DOMAIN storage : storage[i].id = c
MessagesOf(c) == storage[Index(c)].messages

Init ==
    /\ storage = <<>>
    /\ open = [t \in Tabs |-> NoChat]
    /\ mirror = [t \in Tabs |-> <<>>]
    /\ pending = [t \in Tabs |-> {}]
    /\ asked = 0
    /\ answered = {}
    /\ shared = {}

(* The chats that the next state has open in several tabs. *)
NoteShared ==
    shared' = shared \cup {c \in Chats : \E t, u \in Tabs : t # u /\ open'[t] = c /\ open'[u] = c}

(* updateChat: nothing happens for an id that is not found. *)
Updated(chats, c, messages) ==
    [i \in DOMAIN chats |->
        IF chats[i].id = c THEN [chats[i] EXCEPT !.messages = messages] ELSE chats[i]]

(* Faulty variant: the new chat starts with what the mirror still holds. *)
MirrorBeforeKept(t) == mirror[t]

(* The mirror a question is added to: a new chat starts empty. *)
MirrorBefore(t) == IF open[t] = NoChat THEN <<>> ELSE mirror[t]

(* addChat, when no chat is open. *)
ChatsWith(t, c, n) ==
    IF open[t] = NoChat
    THEN <<[id |-> c, title |-> n, messages |-> <<>>]>> \o storage
    ELSE storage

(* sendMessage up to its fetch, by the button, Enter or a Retry link. *)
Send(t) ==
    LET n == asked + 1
        messages == Append(MirrorBefore(t), Asked(n))
    IN \E c \in Chats :
        /\ asked < MaxQuestions
        /\ IF open[t] = NoChat THEN c \notin Stored ELSE c = open[t]
        /\ asked' = n
        /\ open' = [open EXCEPT ![t] = c]
        /\ mirror' = [mirror EXCEPT ![t] = messages]
        /\ storage' = Updated(ChatsWith(t, c, n), c, messages)
        /\ pending' = [pending EXCEPT ![t] = @ \cup {n}]
        /\ NoteShared
        /\ UNCHANGED answered

(* Faulty variant: a reply that finds another chat open is dropped. *)
AnswerIfSame(t, n) ==
    /\ n \in pending[t]
    /\ pending' = [pending EXCEPT ![t] = @ \ {n}]
    /\ answered' = IF open[t] = NoChat THEN answered
                   ELSE answered \cup {[question |-> n, chat |-> open[t]]}
    /\ IF Asked(n) \in {mirror[t][i] : i \in DOMAIN mirror[t]}
       THEN /\ mirror' = [mirror EXCEPT ![t] = Append(@, Reply(n))]
            /\ storage' = Updated(storage, open[t], mirror'[t])
       ELSE UNCHANGED <<mirror, storage>>
    /\ UNCHANGED <<open, asked, shared>>

(* sendMessage after its fetch: results, a reply without results and the two
   error texts are all messages. *)
Answer(t, n) ==
    /\ n \in pending[t]
    /\ pending' = [pending EXCEPT ![t] = @ \ {n}]
    /\ answered' = IF open[t] = NoChat THEN answered
                   ELSE answered \cup {[question |-> n, chat |-> open[t]]}
    /\ mirror' = [mirror EXCEPT ![t] = Append(@, Reply(n))]
    /\ storage' = Updated(storage, open[t], mirror'[t])
    /\ UNCHANGED <<open, asked, shared>>

(* Faulty variant: the mirror is not replaced. *)
LoadedKept(t, c) == IF mirror[t] = <<>> THEN MessagesOf(c) ELSE mirror[t]

Loaded(t, c) == MessagesOf(c)

LoadChat(t, c) ==
    /\ c \in Stored
    /\ open' = [open EXCEPT ![t] = c]
    /\ mirror' = [mirror EXCEPT ![t] = Loaded(t, c)]
    /\ NoteShared
    /\ UNCHANGED <<storage, pending, asked, answered>>

NewChat(t) ==
    /\ open' = [open EXCEPT ![t] = NoChat]
    /\ mirror' = [mirror EXCEPT ![t] = <<>>]
    /\ UNCHANGED <<storage, pending, asked, answered, shared>>

(* The tab is reloaded; its requests are given up. *)
Reload(t) ==
    /\ open' = [open EXCEPT ![t] = NoChat]
    /\ mirror' = [mirror EXCEPT ![t] = <<>>]
    /\ pending' = [pending EXCEPT ![t] = {}]
    /\ UNCHANGED <<storage, asked, answered, shared>>

Next ==
    \E t \in Tabs :
        \/ Send(t)
        \/ \E n \in Questions : Answer(t, n)
        \/ \E c \in Chats : LoadChat(t, c)
        \/ NewChat(t)
        \/ Reload(t)

Spec == Init /\ [][Next]_vars

(***************************************************************************)
(* Properties                                                              *)
(***************************************************************************)

(* The shape of the state: what is stored has the shape that chat.js:5-6
   promises to the code that reads it, each chat once.  A chat always begins
   with the question it is titled by, whatever replies arrived while no chat
   was open and whichever tab wrote last (chat.js:884-886, 891). *)
TypeOK ==
    /\ storage \in Seq([id : Chats, title : Questions, messages : Seq(Messages)])
    /\ \A i, j \in DOMAIN storage : storage[i].id = storage[j].id => i = j
    /\ \A i \in DOMAIN storage :
          storage[i].messages # <<>> /\ storage[i].messages[1] = Asked(storage[i].title)
    /\ open \in [Tabs -> Stored \cup {NoChat}]
    /\ mirror \in [Tabs -> Seq(Messages)]
    /\ pending \in [Tabs -> SUBSET Questions]
    /\ asked \in 0..MaxQuestions
    /\ answered \subseteq [question : Questions, chat : Stored]
    /\ shared \subseteq Stored

(* "In-memory mirror of active chat's messages[]" (chat.js:73): true of a chat
   as long as no second tab had it open at the same time. *)
MirrorIsStored ==
    \A t \in Tabs : open[t] \notin shared \cup {NoChat} => mirror[t] = MessagesOf(open[t])

(* No message that was stored disappears, and no chat does: every update only
   adds to its chat, unless two tabs have it open (chat.js:26). *)
NothingIsForgotten ==
    [][\A c \in Stored :
        /\ c \in Stored'
        /\ c \notin shared' =>
              /\ Len(MessagesOf(c)) <= Len(MessagesOf(c)')
              /\ MessagesOf(c) = SubSeq(MessagesOf(c)', 1, Len(MessagesOf(c)))]_vars

(* Where storage holds the reply to question n: chat and position. *)
Places(n) ==
    UNION {{<<c, i>> : i \in {j \in DOMAIN MessagesOf(c) : MessagesOf(c)[j] = Reply(n)}} :
             c \in Stored}

(* A reply that arrives while a chat is open is kept for good in that chat, once
   and nowhere else, however the user moved between chats (chat.js:930). *)
RepliesAreKept ==
    \A a \in answered :
        a.chat \in shared
        \/ \E i \in DOMAIN MessagesOf(a.chat) : Places(a.question) = {<<a.chat, i>>}
==============================================================================
