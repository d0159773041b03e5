\* Two threads, three requests, two pages: a request of the first page, its retry
\* and one more of the second, with a prompt open on each.
CONSTANTS
  Callers = {c1, c2}
  MaxRequestId = 3
  MaxRequests = 3
  MaxPages = 2
SPECIFICATION Spec
INVARIANT TypeOK
PROPERTIES AnswersAreTheUsers EveryRequestEnds
