------------------------ MODULE CandidateProtocolMC ------------------------
(* Instances of CandidateProtocol for TLC. *)
EXTENDS CandidateProtocol, TLC

CONSTANTS e1, e2, r1, r2, p1, p2

\* One episode: a request, its terminal, and a line that makes run() raise.
PlainFrames == {Request(e1, r1), Terminal(e1, p1), Malformed, Unhashable}

\* Two episodes, a request and the terminals they need.
DialogueFrames == {Request(e1, r1), Terminal(e1, p1), Terminal(e2, p1)}

\* Two requests and two terminals that may be repeated for one episode, while
\* the other one keeps the session open, and lines host or reader stumble over.
StreamFrames == {Request(e1, r1), Request(e1, r2), Terminal(e1, p1), Terminal(e1, p2),
                 TooLong}

\* Neither the request ids nor the predictions of StreamFrames differ in use.
StreamSymmetry == Permutations({r1, r2}) \cup Permutations({p1, p2})
=============================================================================
