---------------------------- MODULE MCSubmission ----------------------------
\* Two paths.  In the calm market path a pays most at a middle input and less
\* at the largest; in the thin one it loses and b pays; in the odd one a quote
\* is too large to be believed and the other fails on the first try more.
EXTENDS Submission, TLC

CONSTANTS a, b, calm, thin, odd

Row(q0, q1, q2) == 0 :> q0 @@ 1 :> q1 @@ 2 :> q2

MCQuotes ==
  calm :> (a :> Row(12, 15, 16)    @@ b :> Row(Fails, Fails, Fails)) @@
  thin :> (a :> Row(9, 10, 11)     @@ b :> Row(11, 13, 13)) @@
  odd  :> (a :> Row(30, 30, 30)    @@ b :> Row(12, Fails, Fails))

=============================================================================
