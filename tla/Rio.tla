-------------------------------- MODULE Rio ---------------------------------
(***************************************************************************)
(* The buffered reads of csapp.c as operators.                             *)
(*                                                                         *)
(* A stream is a sequence of items <<kind, by>>: what it is and who wrote  *)
(* it.  An item is a line, a piece of a body, or a part of a line that     *)
(* arrives on its own.  rio is what rio_buf holds unread, inbox what the   *)
(* socket holds, eof whether the peer has ended.  read() takes all there   *)
(* is (no stream here is longer than rio_buf), and on an empty non-blocking*)
(* socket it fails with EAGAIN.                                            *)
(***************************************************************************)
EXTENDS Integers, Sequences, SequencesExt

\* A line that arrives in two pieces: an item of this kind, then its rest,
\* which may be no more than the end of the line ("blank").
HeadOf == [gethead |-> "get", otherhead |-> "other"]

\* The items that do not end in a newline.
Unterminated == {"body"} \cup DOMAIN HeadOf

IsTerminated(item) == item[1] \notin Unterminated

\* The text of consecutive items as one line: junk unless they are one line.
Join(items) ==
  LET first == items[1] IN
  IF Len(items) = 1 /\ first[1] \notin Unterminated \cup {"tail"} THEN first
  ELSE IF Len(items) = 2 /\ first[1] \in DOMAIN HeadOf /\ items[2][1] \in {"tail", "blank"}
  THEN <<HeadOf[first[1]], first[2]>>
  ELSE <<"junk", first[2]>>

\* rio_read() refills its buffer when that is empty and more is wanted.
Consume(rio, inbox, n) ==
  IF n <= Len(rio)
  THEN [rio |-> SubSeq(rio, n + 1, Len(rio)), inbox |-> inbox]
  ELSE [rio |-> SubSeq(rio \o inbox, n + 1, Len(rio \o inbox)), inbox |-> <<>>]

\* rio_readlineb(): ret, what buf may hold afterwards if it held old before,
\* and what is left.  At EAGAIN, or a reset, the bytes before it are gone, and
\* buf holds them without a terminator over the old line.  At the end of file
\* a head may be a whole line, without its end.
ReadLine(rio, inbox, eof, old) ==
  LET all == rio \o inbox
      n   == SelectInSeq(all, IsTerminated)
  IN IF n > 0 THEN [ret |-> n, lines |-> {Join(SubSeq(all, 1, n))}, left |-> Consume(rio, inbox, n)]
     ELSE [ret   |-> IF eof THEN Len(all) ELSE -1,
           lines |-> IF all = <<>> THEN {old}
                     ELSE {<<"junk", all[1][2]>>}
                            \cup (IF ~eof THEN {old}
                                  ELSE IF Len(all) = 1 /\ all[1][1] \in DOMAIN HeadOf
                                  THEN {<<HeadOf[all[1][1]], all[1][2]>>} ELSE {}),
           left  |-> Consume(rio, inbox, Len(all))]

\* rio_readnb(): ret, the items that reached the caller's buffer, the rest.
ReadBytes(rio, inbox, eof, n) ==
  LET all == rio \o inbox
      got == IF Len(all) < n THEN Len(all) ELSE n
  IN [ret  |-> IF got = n \/ eof THEN got ELSE -1,
      data |-> SubSeq(all, 1, got),
      left |-> Consume(rio, inbox, got)]

\* The same for n items and a part of the next one, which are there.
ReadPart(rio, inbox, n) ==
  LET all  == rio \o inbox
      cut  == all[n + 1]
      more == Consume(rio, inbox, n + 1)
  IN [ret  |-> n + 1,
      data |-> Append(SubSeq(all, 1, n), <<"junk", cut[2]>>),
      left |-> [more EXCEPT !.rio = <<IF IsTerminated(cut) THEN <<"junk", cut[2]>> ELSE cut>> \o @]]
=============================================================================
