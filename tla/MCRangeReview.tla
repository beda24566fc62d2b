--------------------------- MODULE MCRangeReview ---------------------------
(* RangeReview on small ranges, one or two drivers and one review id.      *)
EXTENDS RangeReview

CONSTANTS d1, d2

\* Sections that start here, to be packed under a limit of 2.
RangeOf(starts, names, allowEmpty) ==
    [starts |-> starts, names |-> names, limit |-> 2, allowEmpty |-> allowEmpty]

\* Two sections, which fit in one chunk, and a third one, which does not.
OneChunk  == RangeOf(<<0, 1, 2>>, 2, FALSE)
TwoChunks == RangeOf(<<0, 1, 2, 4>>, 3, FALSE)

\* Ranges nobody can review: with a section over the limit, with fewer paths than
\* sections, without changes, and without changes as was asked for.
Refused ==
    {RangeOf(<<0, 1, 4>>, 2, FALSE), RangeOf(<<0, 1, 2>>, 1, FALSE),
     RangeOf(<<0>>, 0, FALSE), RangeOf(<<0>>, 0, TRUE)}

SmallRanges == Refused \cup {OneChunk, TwoChunks}

OneRequest == {[id |-> "range", out |-> "aggregate.json"]}

Approved   == [result |-> "accepted", findings |-> {}, unconfirmed |-> {}]
Changes    == [result |-> "accepted", findings |-> {"f"}, unconfirmed |-> {}]
NoReview   == [result |-> "unavailable", findings |-> {}, unconfirmed |-> {}]

\* Approved at the second attempt, after a first one that was incomplete and had a
\* valid finding.
Retried == [Approved EXCEPT !.unconfirmed = {"f"}]

SettingOf(frozen, drivers, outcomes, strangers, edited) ==
    [range |-> frozen, drivers |-> drivers, outcomes |-> outcomes,
     strangers |-> strangers, edits |-> edited]

\* One driver among others that review and edit; two at one chunk, among others that
\* edit; two at two chunks, with each other only.
Crowds ==
    {SettingOf(TwoChunks, {d1}, {Approved, Changes, NoReview}, 1, 1),
     SettingOf(OneChunk, {d1, d2}, {Approved, Changes}, 0, 1),
     SettingOf(TwoChunks, {d1, d2}, {Approved}, 0, 0)}
    \cup {SettingOf(r, {d1}, {Approved}, 0, 0) : r \in Refused}

Retries == {SettingOf(OneChunk, {d1}, {Approved, Retried}, 0, 0)}
=============================================================================
