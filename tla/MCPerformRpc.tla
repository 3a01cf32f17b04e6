---------------------------- MODULE MCPerformRpc ----------------------------
(* Requests as a protobuf client encodes them: fields in order, zero left  *)
(* out; and some that write a zero out or put the id last, or - the last - *)
(* a negative velocity in the ten bytes an int32 has.                      *)
EXTENDS PerformRpc

Varint(n) == IF n < 128 THEN <<n>> ELSE <<(n % 128) + 128, n \div 128>>
Scalar(t, n) == IF n = 0 THEN <<>> ELSE <<8 * t>> \o Varint(n)
Sub(t, body) == <<8 * t + 2, Len(body)>> \o body

Request(id, bytes, frames) ==
    [bytes |-> Scalar(1, id) \o bytes, frames |-> frames, reply |-> Scalar(1, id), fits |-> TRUE]

Roomba(id, t, body, frames)   == Request(id, Sub(2, Sub(t, body)), frames)
Actuator(id, t, body, frames) == Request(id, Sub(3, Sub(t, body)), frames)

MCRequests ==
    {Roomba(0, 7, <<>>, <<<<133>>>>),
     Roomba(5, 2, Scalar(1, 11), <<<<129, 11>>>>), Roomba(300, 2, Scalar(1, 7), <<<<129, 7>>>>),
     Roomba(5, 2, Scalar(1, 12), <<>>),
     Roomba(0, 3, Scalar(1, 0), <<<<131>>>>),
     Roomba(5, 4, Scalar(1, 3), <<<<143>>>>),
     Roomba(5, 5, Sub(3, Scalar(1, 7)), <<>>),
     Actuator(5, 1, Scalar(1, 500) \o Scalar(2, 200), <<<<137, 1, 244, 0, 200>>>>),
     Actuator(5, 1, <<8, 0, 16, 5>>, <<<<137, 0, 0, 0, 5>>>>),
     Actuator(5, 1, <<8, 184, 252, 255, 255, 15>>, <<<<137, 254, 56, 0, 0>>>>),
     Actuator(5, 9, <<10, 2, 72, 105>>, <<>>),
     Actuator(5, 12, Scalar(1, 260), <<<<141, 4>>>>),
     [bytes |-> <<18, 4, 26, 2, 8, 1, 8, 5>>, frames |-> <<<<132>>>>, reply |-> <<8, 5>>, fits |-> TRUE],
     [Actuator(5, 1, <<8, 184, 252>> \o [i \in 1..7 |-> 255] \o <<1>> \o Scalar(2, 200),
               <<<<137, 254, 56, 0, 200>>>>) EXCEPT !.fits = FALSE]}

MCPayloads == {r.bytes : r \in MCRequests} \cup {<<>>}
MCMeaning  == [d \in {r.bytes : r \in MCRequests} |->
                 LET r == CHOOSE q \in MCRequests : q.bytes = d
                 IN  [frames |-> r.frames, reply |-> r.reply, fits |-> r.fits]]
\* Behind the payload: its terminator, or the rest of an earlier request.
MCTails == {<<0>>, <<26, 4, 10, 2, 8, 1, 0>>}
=============================================================================
