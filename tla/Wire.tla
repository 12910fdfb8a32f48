-------------------------------- MODULE Wire --------------------------------
(***************************************************************************)
(* CWorker (common/function.cpp), the framing both programs share: messages*)
(* and files are split into packages, each package is one send() of        *)
(* "TCPHEAD" fields content "TCPTAIL", and Process cuts the packages out of*)
(* whatever the socket delivers.                                           *)
(*                                                                         *)
(* The byte stream is a sequence of tokens: the head of a package with its *)
(* fields, its content, its tail, and the unframed bytes of a heartbeat.   *)
(* A send() that the socket buffer cuts short is cut between tokens.       *)
(* Each connection is modelled in one direction; the receivers are worker  *)
(* threads of one process and write one path.                              *)
(***************************************************************************)
EXTENDS Integers, FiniteSets, SequencesExt

CONSTANTS
  Conns,       \* connections
  PAGSIZE,     \* content bytes of a package (dataStructure.h:4)
  MsgSizes,    \* sizes of messages sent
  FileSizes,   \* sizes of files sent
  SockBuf,     \* tokens a socket buffers
  OpenFails,   \* may opening the received file fail?
  MaxSent,     \* bound: per connection, messages and files sent
  MaxBeats     \* bound: per connection, heartbeats sent

ASSUME WireAssumption ==
  /\ PAGSIZE \in Nat \ {0}
  /\ MsgSizes \subseteq Nat
  /\ FileSizes \subseteq Nat
  /\ SockBuf \in Nat
  /\ OpenFails \in BOOLEAN
  /\ MaxSent \in [Conns -> Nat]
  /\ MaxBeats \in [Conns -> Nat]

VARIABLES
  sent,             \* per connection, the messages and files begun
  sending,          \* per connection, the package to send next; 0: none
  cut,              \* history: was a send() cut short or refused
  beats,            \* per connection, heartbeats sent
  wire,             \* per connection, tokens sent and not received
  m_strData,        \* per receiver, received and not yet taken apart
  m_strMsgContent,  \* per receiver, contents of the message so far
  processing,       \* per receiver, is Process running
  chunk,            \* per receiver, <<head, chunk>> Process is to write, or <<>>
  file,             \* chunks in the file at the upload path
  alone,            \* history: nobody else used the path since the 1st chunk
  missed,           \* history: did an open fail since the 1st chunk
  executed          \* per receiver, what was executed

vars == <<sent, sending, cut, beats, wire, m_strData, m_strMsgContent,
          processing, chunk, file, alone, missed, executed>>

recvVars == <<m_strData, m_strMsgContent, processing, chunk, file, alone, missed,
              executed>>
sendVars == <<sent, sending, cut, beats>>

Init ==
  /\ sent = [c \in Conns |-> <<>>]
  /\ sending = [c \in Conns |-> 0]
  /\ cut = [c \in Conns |-> FALSE]
  /\ beats = [c \in Conns |-> 0]
  /\ wire = [c \in Conns |-> <<>>]
  /\ m_strData = [c \in Conns |-> <<>>]
  /\ m_strMsgContent = [c \in Conns |-> <<>>]
  /\ processing = [c \in Conns |-> FALSE]
  /\ chunk = [c \in Conns |-> <<>>]
  /\ file = <<>>
  /\ alone = [c \in Conns |-> FALSE]
  /\ missed = [c \in Conns |-> FALSE]
  /\ executed = [c \in Conns |-> <<>>]
-----------------------------------------------------------------------------
(*                                 Sender                                  *)

(* Packages of a message or file: a size that is a multiple of PAGSIZE     *)
(* ends with an empty package.                                             *)
PackageCount(size) == size \div PAGSIZE + 1

(* Tokens carry the connection and the message they were sent for.         *)
Token(t, c, id, num) ==
  [t |-> t, c |-> c, id |-> id, num |-> num, kind |-> sent[c][id].kind,
   allnum |-> PackageCount(sent[c][id].size)]
Beat(c) == [t |-> "beat", c |-> c, id |-> 0, num |-> 0, kind |-> "raw", allnum |-> 0]

Package(c, id, num) ==
  <<Token("head", c, id, num), Token("content", c, id, num), Token("tail", c, id, num)>>

(* send(): the tokens the buffer has room for.                             *)
Sendable(c, tokens) ==
  LET room == SockBuf - Len(wire[c])
  IN  IF room < Len(tokens) THEN SubSeq(tokens, 1, room) ELSE tokens

(* SendMsgTo and SendFileTo begin.                                         *)
Send(c, kind, size) ==
  /\ sending[c] = 0
  /\ Len(sent[c]) < MaxSent[c]
  /\ sent' = [sent EXCEPT ![c] = Append(@, [kind |-> kind, size |-> size])]
  /\ sending' = [sending EXCEPT ![c] = 1]
  /\ UNCHANGED <<cut, beats, wire, recvVars>>

SendMsgTo(c) == \E size \in MsgSizes : Send(c, "msg", size)
SendFileTo(c) == \E size \in FileSizes : Send(c, "file", size)

(* send_package returns 0, or -1 when send() accepted nothing.  SendFileTo *)
(* gives up on -1; SendMsgTo on anything that is not positive, so always.  *)
GoesOn(kind, rc) == IF kind = "file" THEN rc >= 0 ELSE rc > 0

(* Mutant: `i <= time` as the condition of the loops.                      *)
MoreToSendPastEnd(num, size) == num <= PackageCount(size)

MoreToSend(num, size) == num < PackageCount(size)

(* One turn of the loop of SendMsgTo or SendFileTo, with send_package.     *)
SendPackage(c) ==
  LET id == Len(sent[c])
      num == sending[c]
      package == Package(c, id, num)
      accepted == Sendable(c, package)
      rc == IF accepted = <<>> THEN -1 ELSE 0
      more == GoesOn(sent[c][id].kind, rc) /\ MoreToSend(num, sent[c][id].size)
  IN  /\ sending[c] > 0
      /\ wire' = [wire EXCEPT ![c] = @ \o accepted]
      /\ cut' = [cut EXCEPT ![c] = @ \/ accepted # package]
      /\ sending' = [sending EXCEPT ![c] = IF more THEN num + 1 ELSE 0]
      /\ UNCHANGED <<sent, beats, recvVars>>

(* A heartbeat, "h", "H" or "test", from another thread: no markers.       *)
SendBeat(c) ==
  /\ beats[c] < MaxBeats[c]
  /\ beats' = [beats EXCEPT ![c] = @ + 1]
  /\ wire' = [wire EXCEPT ![c] = @ \o Sendable(c, <<Beat(c)>>)]
  /\ UNCHANGED <<sent, sending, cut, recvVars>>
-----------------------------------------------------------------------------
(*                                Receiver                                 *)

(* The read callback hands Process all there is, any part of the stream.   *)
Receive(c) ==
  /\ ~ processing[c]
  /\ \E n \in 1 .. Len(wire[c]) :
       /\ m_strData' = [m_strData EXCEPT ![c] = @ \o SubSeq(wire[c], 1, n)]
       /\ wire' = [wire EXCEPT ![c] = SubSeq(@, n + 1, Len(@))]
  /\ processing' = [processing EXCEPT ![c] = TRUE]
  /\ UNCHANGED <<sendVars, m_strMsgContent, chunk, file, alone, missed, executed>>

At(s, t, from) == {k \in from .. Len(s) : s[k].t = t}

(* GetPackage: the first head, and the first tail after it.                *)
HeadAt(s) == Min(At(s, "head", 1))
TailAt(s) == Min(At(s, "tail", HeadAt(s)))
HasPackage(s) == At(s, "head", 1) # {} /\ At(s, "tail", HeadAt(s)) # {}
ContentOf(s) == SubSeq(s, HeadAt(s) + 1, TailAt(s) - 1)

(* Mutant: the package stays in m_strData.                                 *)
RestAll(s) == s

(* Mutant: what follows the package is dropped with it.                    *)
RestNone(s) == <<>>

Rest(s) == SubSeq(s, TailAt(s) + 1, Len(s))

Execute(c, head, content, only, part) ==
  executed' = [executed EXCEPT ![c] =
    Append(@, [kind |-> head.kind, id |-> head.id, content |-> content, alone |-> only,
               missed |-> part])]

(* Process goes on to the next package: nothing is waiting to be written. *)
Taking(c) == processing[c] /\ chunk[c] = <<>>
NextHead(c) == m_strData[c][HeadAt(m_strData[c])]

(* A message package: contents add up until the last package executes.     *)
ProcessMsg(c) ==
  LET head == NextHead(c)
      content == m_strMsgContent[c] \o ContentOf(m_strData[c])
  IN  /\ Taking(c) /\ HasPackage(m_strData[c]) /\ head.kind = "msg"
      /\ m_strData' = [m_strData EXCEPT ![c] = Rest(@)]
      /\ IF head.num < head.allnum
         THEN /\ m_strMsgContent' = [m_strMsgContent EXCEPT ![c] = content]
              /\ UNCHANGED executed
         ELSE /\ m_strMsgContent' = [m_strMsgContent EXCEPT ![c] = <<>>]
              /\ Execute(c, head, content, TRUE, FALSE)
      /\ UNCHANGED <<sendVars, wire, processing, chunk, file, alone, missed>>

(* Mutant: an old file is not deleted before the first chunk.              *)
DeletesOldNever(head) == FALSE

DeletesOld(head) == head.num = 1

(* c uses the upload path: whoever was writing it is not alone any more.   *)
Use(c, first) == alone' = [d \in Conns |-> d = c /\ (first \/ alone[c])]

(* A file package: its content is read and an old file deleted before the  *)
(* first chunk.  StringToJson reads a text that begins the content and     *)
(* ignores what follows; a content that begins otherwise is dropped.       *)
ProcessFile(c) ==
  LET head == NextHead(c)
      content == ContentOf(m_strData[c])
      isJson == content # <<>> /\ content[1].t = "content" /\ content[1].kind = "file"
  IN  /\ Taking(c) /\ HasPackage(m_strData[c]) /\ head.kind = "file"
      /\ m_strData' = [m_strData EXCEPT ![c] = Rest(@)]
      /\ IF isJson
         THEN /\ chunk' = [chunk EXCEPT ![c] = <<head, content[1]>>]
              /\ file' = IF DeletesOld(head) THEN <<>> ELSE file
              /\ Use(c, head.num = 1)
              /\ missed' = [missed EXCEPT ![c] = @ /\ head.num # 1]
         ELSE UNCHANGED <<chunk, file, alone, missed>>
      /\ UNCHANGED <<sendVars, wire, m_strMsgContent, processing, executed>>

(* The chunk is appended and the file closed; after the last one it executes.*)
WriteChunk(c) ==
  LET head == chunk[c][1]
  IN  /\ chunk[c] # <<>>
      /\ file' = Append(file, chunk[c][2])
      /\ Use(c, FALSE)
      /\ chunk' = [chunk EXCEPT ![c] = <<>>]
      /\ IF head.num < head.allnum THEN UNCHANGED executed
         ELSE Execute(c, head, file', alone[c], missed[c])
      /\ UNCHANGED <<sendVars, wire, m_strData, m_strMsgContent, processing, missed>>

(* The file cannot be opened: Process returns, whatever m_strData holds,   *)
(* and the chunk is lost.  The flag it sets for the caller that waits at   *)
(* the client is in module Client.                                         *)
OpenFailed(c) ==
  /\ OpenFails /\ chunk[c] # <<>>
  /\ chunk' = [chunk EXCEPT ![c] = <<>>]
  /\ missed' = [missed EXCEPT ![c] = TRUE]
  /\ processing' = [processing EXCEPT ![c] = FALSE]
  /\ UNCHANGED <<sendVars, wire, m_strData, m_strMsgContent, file, alone, executed>>

(* No complete package is left.                                            *)
ProcessEnd(c) ==
  /\ Taking(c) /\ ~ HasPackage(m_strData[c])
  /\ processing' = [processing EXCEPT ![c] = FALSE]
  /\ UNCHANGED <<sendVars, wire, m_strData, m_strMsgContent, chunk, file, alone, missed,
                 executed>>

(* Nothing to send or to receive.                                          *)
Quiet ==
  /\ \A c \in Conns : sending[c] = 0 /\ wire[c] = <<>> /\ ~ processing[c]
  /\ UNCHANGED vars
-----------------------------------------------------------------------------
Process(c) ==
  \/ ProcessMsg(c) \/ ProcessFile(c) \/ WriteChunk(c) \/ OpenFailed(c)
  \/ ProcessEnd(c)

Next ==
  \/ \E c \in Conns : \/ SendMsgTo(c) \/ SendFileTo(c) \/ SendPackage(c) \/ SendBeat(c)
                      \/ Receive(c) \/ Process(c)
  \/ Quiet

Spec == Init /\ [][Next]_vars

(* A sender inside SendMsgTo or SendFileTo, TCP and the event loop go on.  *)
FairSpec ==
  /\ Spec
  /\ \A c \in Conns : WF_vars(SendPackage(c)) /\ WF_vars(Receive(c)) /\ WF_vars(Process(c))
-----------------------------------------------------------------------------
(*                               Properties                                *)

Tokens == [t : {"head", "content", "tail", "beat"}, c : Conns, id : Nat,
           num : Nat, kind : {"msg", "file", "raw"}, allnum : Nat]

TypeOK ==
  /\ sent \in [Conns -> Seq([kind : {"msg", "file"}, size : MsgSizes \cup FileSizes])]
  /\ sending \in [Conns -> Nat]
  /\ \A c \in Conns :
       sending[c] > 0 => sending[c] <= PackageCount(sent[c][Len(sent[c])].size)
  /\ cut \in [Conns -> BOOLEAN]
  /\ beats \in [Conns -> Nat]
  /\ wire \in [Conns -> Seq(Tokens)]
  /\ m_strData \in [Conns -> Seq(Tokens)]
  /\ m_strMsgContent \in [Conns -> Seq(Tokens)]
  /\ processing \in [Conns -> BOOLEAN]
  /\ chunk \in [Conns -> {<<>>} \cup (Tokens \X Tokens)]
  /\ file \in Seq(Tokens)
  /\ alone \in [Conns -> BOOLEAN] /\ missed \in [Conns -> BOOLEAN]
  /\ executed \in [Conns -> Seq([kind : {"msg", "file"}, id : Nat \ {0},
                                 content : Seq(Tokens), alone : BOOLEAN,
                                 missed : BOOLEAN])]

(* The contents of all packages of what was sent as id, in order.          *)
Whole(c, id) ==
  [num \in 1 .. PackageCount(sent[c][id].size) |-> Token("content", c, id, num)]

(* "When a message is large and must be split" (dataStructure.h:43-44) the *)
(* receiver puts it together again: a command is executed with the content *)
(* of one message, all of it.                                              *)
CommandWhole ==
  \A c \in Conns : \A e \in ToSet(executed[c]) :
    e.kind = "msg" => e.content = Whole(c, e.id)

(* content holds chunks of c's file id only, none twice and none moved.    *)
ChunksOf(c, id, content) ==
  \A j \in DOMAIN content :
    /\ content[j] = Token("content", c, id, content[j].num)
    /\ content[j].num \in 1 .. PackageCount(sent[c][id].size)
    /\ \A i \in 1 .. j - 1 : content[i].num < content[j].num

(* A file whose path no other connection used meanwhile, on a connection   *)
(* none of whose sends was cut or refused, is executed with all its chunks,*)
(* in order and nothing else; when an open failed since its first chunk it *)
(* is executed all the same, without the chunks of the failed opens, but   *)
(* still with no chunk of another file, none twice and none moved          *)
(* (function.cpp:103-148, 294-317).                                        *)
FileWhole ==
  \A c \in Conns : \A e \in ToSet(executed[c]) :
    e.kind = "file" /\ e.alone /\ ~ cut[c] =>
      IF e.missed THEN ChunksOf(c, e.id, e.content) ELSE e.content = Whole(c, e.id)

(* Packages merged by cut sends, residues and heartbeats lose messages but *)
(* never repeat one or change the order (function.cpp:175-213).            *)
ExecutedInOrder ==
  \A c \in Conns : \A j, k \in DOMAIN executed[c] :
    j < k => executed[c][j].id < executed[c][k].id

(* Messages below PAGSIZE, and files, go through as Courier promises while *)
(* the socket buffers take every package and one connection uses the path. *)
C == INSTANCE Courier WITH
       Links <- Conns,
       Items <- {"msg", "file"} \X (UNION {1 .. MaxSent[c] : c \in Conns})
                 \X {TRUE},
       handed <- [c \in Conns |->
                    [id \in DOMAIN sent[c] |-> <<sent[c][id].kind, id, TRUE>>]],
       delivered <- [c \in Conns |->
                       [k \in DOMAIN executed[c] |->
                          LET e == executed[c][k]
                          IN  <<e.kind, e.id, e.content = Whole(c, e.id)>>]]

(* Every message and file sent is executed by the other end, once, whole   *)
(* and in order (function.cpp:82-157, 263-375).                            *)
ImplementsCourier == C!CSpec
=============================================================================
