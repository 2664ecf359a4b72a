----------------------------- MODULE Wildcards -----------------------------
(***************************************************************************)
(* Topics and subscriptions (the pure part of Server.cpp).  A topic is the *)
(* sequence of its levels, that is of the strings between the '/'; so      *)
(* "a//b/" is << "a", "", "b", "" >> and the empty string is << "" >>.     *)
(***************************************************************************)
EXTENDS Integers, Sequences, SequencesExt

star_str == "*"
plus_str == "+"

(* getline() on a stringstream yields every level except a last one that   *)
(* is empty: after the final '/' the stream is already at its end.         *)
tokenize_topic(topic) ==
  IF topic # <<>> /\ Last(topic) = "" THEN Front(topic) ELSE topic

(* Mutant: what is left of the topic does not matter.                      *)
OldAtEnd(i, oldEnd, j, newEnd) == i = oldEnd

(* "For a match, both iterators should have reached the end."              *)
BothAtEnd(i, oldEnd, j, newEnd) == i = oldEnd /\ j = newEnd

(* One iteration of the loop, with it_old at token i: the positions of     *)
(* it_new from which the rest matches.  A star that is last matches        *)
(* whatever is left; otherwise the loop jumps to the first token equal to  *)
(* the one after the star, as a plain string, and never reconsiders that   *)
(* choice.                                                                 *)
MatchingFrom(i, old, new, match) ==
  LET oldEnd == Len(old) + 1
      newEnd == Len(new) + 1
  IN  {j \in 1..newEnd :
         IF i = oldEnd \/ j = newEnd
         THEN BothAtEnd(i, oldEnd, j, newEnd)
         ELSE IF old[i] = star_str
         THEN \/ i = Len(old)
              \/ /\ i < Len(old)
                 /\ \E k \in j..Len(new) :
                      /\ new[k] = old[i + 1]
                      /\ \A l \in j..(k - 1) : new[l] # old[i + 1]
                      /\ k + 1 \in match[i + 2]
         ELSE (old[i] = plus_str \/ old[i] = new[j]) /\ j + 1 \in match[i + 1]}

compare_token_vectors(old, new) ==
  LET match[i \in 1..(Len(old) + 1)] == MatchingFrom(i, old, new, match)
  IN  1 \in match[1]

check_wildcard_topic(topic, subscr_topics) ==
  \E s \in subscr_topics :
    compare_token_vectors(tokenize_topic(s), tokenize_topic(topic))

(* The test send_msg_if_subscribed applies to each connected client: the   *)
(* literal topic first, the wildcards only when that fails.                *)
IsSubscribed(subscr_topics, topic) ==
  topic \in subscr_topics \/ check_wildcard_topic(topic, subscr_topics)
=============================================================================
