SPECIFICATION Spec
CONSTANTS
  Subject = "all"
  Events <- MCEvents
  Program <- MCProgram
  Room = {0, 1, 9, 17, 24, 60, 150, 400, 4000, 70000}
  UserString = {1, 9, 100, 5000}
  KernelString = {1, 16, 200}
  BufLen = {0, 16, 17, 300}
INVARIANTS InRoom Complete  WholeIfFits
PROPERTIES TypeFits ResultIsReturn 
