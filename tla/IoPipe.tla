------------------------------- MODULE IoPipe -------------------------------
(***************************************************************************)
(* IoPipe (src/src/lib/io.cpp): a descriptor whose bytes are converted from *)
(* and to the text encoding of the window, in whatever portions read and    *)
(* write take them.  The encoding is abstract: "lead" "trail" make a        *)
(* character together, "plain" is one by itself, "bad" never is one.        *)
(***************************************************************************)
EXTENDS Integers, Sequences, SequencesExt

CONSTANTS BUF_SIZE,     \* bytes a read takes at most, an unfinished tail included
          MaxBytes,     \* bound: bytes the program prints and the user types
          MaxSwitches   \* bound: changes of encoding

ASSUME PipeAssumption == BUF_SIZE \in Nat /\ MaxBytes \in Nat /\ MaxSwitches \in Nat

Bytes == {"plain", "lead", "trail", "bad"}
Retries == 5

VARIABLES pipe,     \* mCodecRead set?, mBufRead, mBufWrite, the text being written
          got,      \* what readyRead was handed: characters and the bytes they were
          arrived,  \* every byte read so far
          written,  \* offered: typed bytes; sent: bytes the terminal took;
                    \* stuck: text was given up; cut: a tail was put aside
          switches

pipeVars == <<pipe, got, arrived, written, switches>>

Char(c, from) == [char |-> c, from |-> from]

\* One call of iconv on the front of the input: a character, an illegal byte
\* (EILSEQ) or an unfinished one (EINVAL).
Step(bytes) ==
    IF bytes[1] = "plain" THEN [kind |-> "char", used |-> 1]
    ELSE IF bytes[1] # "lead" THEN [kind |-> "illegal", used |-> 1]
    ELSE IF Len(bytes) = 1 THEN [kind |-> "unfinished", used |-> 1]
    ELSE IF bytes[2] = "trail" THEN [kind |-> "char", used |-> 2]
    ELSE [kind |-> "illegal", used |-> 1]

Rest(bytes, n) == SubSeq(bytes, n + 1, Len(bytes))
Upto(bytes, n) == SubSeq(bytes, 1, n)

Skipped(bytes) == 1     \* inptr++, total--

\* The loop of translate with an encoding: what is handed on, what is kept.
Converted(bytes) ==
    LET after(i) == Rest(bytes, i)
        conv[i \in 0 .. Len(bytes)] ==
            IF i = Len(bytes) THEN [out |-> <<>>, tail |-> <<>>]
            ELSE LET s == Step(after(i))
                     n == IF s.kind = "illegal" THEN Skipped(after(i)) ELSE s.used
                     then == conv[i + n]
                 IN  CASE s.kind = "unfinished" -> [out |-> <<>>, tail |-> after(i)]
                       [] s.kind = "illegal" ->
                            [then EXCEPT !.out = <<Char("?", Upto(after(i), 1))>> \o @]
                       [] OTHER ->
                            [then EXCEPT !.out = <<Char("c", Upto(after(i), s.used))>> \o @]
    IN  conv[0]

AsIs(bytes) == [i \in DOMAIN bytes |-> Char("raw", <<bytes[i]>>)]
BytesOf(chars) == FlattenSeq([i \in DOMAIN chars |-> chars[i].from])

PipeTypeOK ==
    /\ pipe \in [codec : BOOLEAN, mBufRead : Seq(Bytes), mBufWrite : Seq(Bytes),
                 pending : Seq(Bytes), num : 0 .. Retries]
    /\ Len(pipe.mBufRead) <= 1 /\ Len(pipe.mBufWrite) <= 1
    /\ switches \in 0 .. MaxSwitches

PipeInit ==
    /\ pipe \in [codec : BOOLEAN, mBufRead : {<<>>}, mBufWrite : {<<>>},
                 pending : {<<>>}, num : {0}]
    /\ got = <<>> /\ arrived = <<>> /\ switches = 0
    /\ written = [offered |-> <<>>, sent |-> <<>>, stuck |-> FALSE, cut |-> FALSE]

Idle == pipe.pending = <<>>     \* writeIo blocks the only thread

\* mutant: the tail of the last read comes after the new bytes
Joined_Swapped(tail, bytes) == bytes \o tail

Joined(tail, bytes) == tail \o bytes

Room(tail) == BUF_SIZE - Len(tail)

\* ready(true): the bytes are read behind the tail, and translated with it.
Ready ==
    \E n \in 1 .. Room(pipe.mBufRead) : \E bytes \in [1 .. n -> Bytes] :
        LET all == Joined(pipe.mBufRead, bytes)
            c == Converted(all)
        IN  /\ Idle
            /\ Len(arrived) + Len(written.offered) + n <= MaxBytes
            /\ arrived' = arrived \o bytes
            /\ got' = got \o (IF pipe.codec THEN c.out ELSE AsIs(all))
            /\ pipe' = [pipe EXCEPT !.mBufRead = IF pipe.codec THEN c.tail ELSE <<>>]
            /\ UNCHANGED <<written, switches>>

\* write: the tail is stored where nothing ever looks for it.
Write ==
    \E n \in 1 .. MaxBytes : \E bytes \in [1 .. n -> Bytes \ {"bad"}] :
        LET c == Converted(bytes)
            text == IF pipe.codec THEN BytesOf(c.out) ELSE bytes
        IN  /\ Idle
            /\ Len(arrived) + Len(written.offered) + n <= MaxBytes
            /\ pipe' = [pipe EXCEPT
                          !.pending = text, !.num = Retries,
                          !.mBufWrite = IF pipe.codec /\ c.tail # <<>> THEN c.tail ELSE @]
            /\ written' = [written EXCEPT !.offered = @ \o bytes,
                             !.cut = @ \/ (pipe.codec /\ c.tail # <<>>)]
            /\ UNCHANGED <<got, arrived, switches>>

\* writeIo: the terminal takes some of the bytes ...
WriteSome ==
    \E n \in 1 .. Len(pipe.pending) :
        /\ pipe' = [pipe EXCEPT !.pending = Rest(@, n)]
        /\ written' = [written EXCEPT !.sent = @ \o Upto(pipe.pending, n)]
        /\ UNCHANGED <<got, arrived, switches>>

\* ... or none (EAGAIN): five waits of 200 ms, then what is left is dropped.
WriteAgain ==
    /\ ~Idle
    /\ IF pipe.num > 0
       THEN pipe' = [pipe EXCEPT !.num = @ - 1] /\ UNCHANGED written
       ELSE /\ pipe' = [pipe EXCEPT !.pending = <<>>]
            /\ written' = [written EXCEPT !.stuck = TRUE]
    /\ UNCHANGED <<got, arrived, switches>>

\* setCodec (the encoding keys): the converters change, the tails stay.
SetCodec ==
    /\ Idle
    /\ switches < MaxSwitches
    /\ switches' = switches + 1
    /\ pipe' = [pipe EXCEPT !.codec = ~@]
    /\ UNCHANGED <<got, arrived, written>>

WriteIo == WriteSome \/ WriteAgain
PipeNext == Ready \/ Write \/ WriteIo \/ SetCodec
PipeSpec == PipeInit /\ [][PipeNext]_pipeVars

-----------------------------------------------------------------------------
\* However a stream is cut into reads, and whenever the encoding changes, every
\* byte is part of exactly one character handed on, in order, or is the tail
\* kept for the next read.
EveryByteOnce == BytesOf(got) \o pipe.mBufRead = arrived

\* The portions do not show: under one encoding the characters are those of the
\* whole stream converted at once.
PortionsDoNotShow ==
    (switches = 0 /\ pipe.codec) => got = Converted(arrived).out

\* What the terminal got is what was typed, in order and without a hole, as
\* long as it took the bytes in time and no character was cut in two.
TypedArrives ==
    (~written.stuck /\ ~written.cut)
    => written.sent \o pipe.pending = written.offered
=============================================================================
