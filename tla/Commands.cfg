\* both paths of every command, with up to two things going wrong
CONSTANT
  MaxWrong = 2
SPECIFICATION CommandSpec
CHECK_DEADLOCK FALSE
INVARIANTS SameUnlessFileOrLink AnswersAreTrue
