\* Requests, uploads, lessons and files of the server, broken connections, and with a
\* missing file each of the other things that may go wrong.
SPECIFICATION FairSpec
CONSTANTS
  FaultSets = {{"missing", "push"}, {"missing", "open"}, {"missing", "long"}, {"server"}}
  MaxPackages = 2
  MaxRequests = 2
  MaxConns = 2
  MaxPushes = 1
  MaxLessons = 1
INVARIANTS TypeOK
PROPERTIES AnswerOwn ListShowsUpload Answered NoticedReconnects LessonShown
