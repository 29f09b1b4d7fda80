SPECIFICATION SubmissionSpec
CONSTANTS
 fine = fine
 lacking = lacking
 refused = refused
 Content = {fine, lacking, refused}
 Lacking = {lacking}
 Invalid = {lacking, refused}
 Press = {1, 2}
 Odd = Odd
 MaxVersion = 3
 MaxMoves = 4
PROPERTY TakenVersionIsRetried
CHECK_DEADLOCK FALSE
